---- MODULE Spec2Model ----
(***************************************************************************)
(* Keyword retrieval and ranking of the product-recommendation demo:       *)
(* text_based_search_qa of src/streamlit_qa_app.py, run against the        *)
(* product_qa / product_categories tables of the store.                    *)
(*                                                                         *)
(* Text is a sequence of one-character strings.  confidence_score is kept  *)
(* in hundredths (0.5 is 50).  The store answers a select with the rows    *)
(* that satisfy the filters of that request, in table order, or the        *)
(* request raises when the store cannot be reached.  The request of a      *)
(* keyword carries the category filter, the or_ filter of that keyword and *)
(* the confidence floor; ilike is SQL ILIKE on the pattern as it is sent.  *)
(***************************************************************************)
EXTENDS Integers, Sequences, FiniteSets, TLC

VARIABLES
    store,            \* rows of table product_qa, in table order
    storeUp,          \* whether the store can be reached
    query,            \* argument query of the current call
    category_filter,  \* argument category_filter of the current call
    top_k,            \* argument top_k of the current call
    pc,               \* position inside text_based_search_qa
    keywords,         \* local keywords
    category_id,      \* category the base query is restricted to, or NoCategory
    ki,               \* index of the keyword the for loop is at
    all_results,      \* local all_results
    ret,              \* outcome of the call
    sawError,         \* a store request of the current call raised
    flipped,          \* the reachability of the store changed during the current call
    prev,             \* the previous call: arguments, outcome, flipped
    calls,            \* number of calls begun
    reads,            \* store requests the current call has issued
    qa_list,          \* argument qa_list of create_direct_recommendation
    qi,               \* index of the record the grouping loop is at
    products_info,    \* local products_info, in insertion order
    recommendation,   \* outcome of create_direct_recommendation
    rpc,              \* position inside create_direct_recommendation
    routine,          \* the ingestion routine that runs
    feed,             \* the items search_naver_api returns, per source or search keyword
    si,               \* index of the source or search keyword the outer loop is at
    ii,               \* index of the item the inner loop is at
    collected_data,   \* local collected_data of process_and_save_data
    saved_count,      \* local saved_count
    results,          \* local results
    documents,        \* rows of table documents, in table order
    processed_items,  \* local processed_items of collect_shopping_data
    all_items,        \* local all_items
    ipc,              \* position inside the ingestion routine
    auto_collection_triggered,  \* st.session_state key, absent or a boolean
    auto_collection_query,      \* st.session_state key, absent or a query
    raw_product_data, \* product names of the rows of table raw_product_data
    epc,              \* position inside one script run of main
    initial_results,  \* local results of enhanced_text_based_search_qa
    qa_results,       \* what enhanced_text_based_search_qa returned to main
    sample,           \* index of the QA the insert loop is at
    qa_saved_count,   \* local saved_count of auto_collect_and_generate_qa_fixed
    success,          \* what auto_collect_and_generate_qa_fixed returned, if it has
    searched,         \* the queries text_based_search_qa was invoked with
    inserted,         \* product_qa rows inserted by the current generation
    entry,            \* store and session state when enhanced_text_based_search_qa was entered
    products,         \* argument products of process_product_batch
    product_index,    \* index of the product the for loop is at
    batch_results,    \* local results of process_product_batch
    raw_data,         \* local raw_data: empty, or the collected record
    collected,        \* what the collection returned, product by product
    qa_invoked,       \* indexes of the products QA generation was called for
    bpc,              \* position inside process_product_batch
    processed_data,   \* argument of the current save_to_database call, if any
    spc,              \* position inside save_to_database and its caller
    save_ret,         \* what save_to_database returned, if it has
    specific_rows,    \* rows of tables products, blog_posts and news_articles
    specific_raised,  \* the source-specific insert of the current call raised
    save_calls,       \* number of save_to_database calls made
    before,           \* the tables and saved_count when the current call began
    ai_response,      \* argument of parse_ai_recommendation, line by line
    line_index,       \* index of the line the for loop is at
    current_category, \* local current_category
    current_product,  \* local current_product
    recommendations,  \* local recommendations
    fallback,         \* parse_ai_recommendation returned the fallback data
    numbered_at,      \* index of the numbered line current_product began at
    filed,            \* for every product appended: its numbered line and list
    ppc               \* position inside parse_ai_recommendation

searchVars == <<store, storeUp, query, category_filter, top_k, pc, keywords,
                category_id, ki, all_results, ret, sawError, flipped, prev, calls, reads>>

recommendVars == <<qa_list, qi, products_info, recommendation, rpc>>

ingestVars == <<routine, feed, si, ii, collected_data, saved_count, results,
                documents, processed_items, all_items, ipc>>

sessionVars == <<auto_collection_triggered, auto_collection_query, raw_product_data,
                 epc, initial_results, qa_results, sample, qa_saved_count, success,
                 searched, inserted, entry>>

batchVars == <<products, product_index, batch_results, raw_data, collected,
               qa_invoked, bpc>>

saveVars == <<processed_data, spc, save_ret, specific_rows, specific_raised,
              save_calls, before>>

parseVars == <<ai_response, line_index, current_category, current_product,
               recommendations, fallback, numbered_at, filed, ppc>>

vars == <<searchVars, recommendVars, ingestVars, sessionVars, batchVars, saveVars,
          parseVars>>

\* what the actions of one routine leave alone: the variables of the others
exceptSearch == <<recommendVars, ingestVars, sessionVars, batchVars, saveVars,
                 parseVars>>

exceptRecommend == <<searchVars, ingestVars, sessionVars, batchVars, saveVars,
                    parseVars>>

exceptIngest == <<searchVars, recommendVars, sessionVars, batchVars, saveVars,
                 parseVars>>

\* the variables text_based_search_qa keeps while it runs
searchLocals == <<pc, keywords, category_id, ki, all_results, ret, sawError,
                  flipped, prev, calls, reads>>

exceptSession == <<searchLocals, recommendVars, ingestVars, batchVars, saveVars,
                  parseVars>>

\* the variables of the script run but for table raw_product_data
sessionLocals == <<auto_collection_triggered, auto_collection_query, epc,
                   initial_results, qa_results, sample, qa_saved_count, success,
                   searched, inserted, entry>>

exceptBatch == <<searchVars, recommendVars, ingestVars, sessionLocals, saveVars,
                 parseVars>>

\* the variables of the ingestion but for table documents and saved_count
ingestLocals == <<routine, feed, si, ii, collected_data, results, processed_items,
                  all_items, ipc>>

exceptSave == <<searchVars, recommendVars, ingestLocals, sessionVars, batchVars,
                parseVars>>

exceptParse == <<searchVars, recommendVars, ingestVars, sessionVars, batchVars,
                 saveVars>>

(***************************************************************************)
(* Bounds of the model.                                                    *)
(***************************************************************************)
MaxTokens == 2
MaxStore == 2
MaxTopK == 2
MaxCalls == 2

(***************************************************************************)
(* Text helpers.                                                           *)
(***************************************************************************)
Min(a, b) == IF a <= b THEN a ELSE b

\* str.lower() on one character of the alphabet in use
LowerChar(c) ==
    CASE c = "A" -> "a"
      [] c = "B" -> "b"
      [] c = "C" -> "c"
      [] c = "D" -> "d"
      [] OTHER -> c

\* str.lower()
Lower(s) == [n \in 1..Len(s) |-> LowerChar(s[n])]

IsSpace(c) == c = " "

\* str.strip(): leading and trailing whitespace removed
RECURSIVE LStrip(_)
LStrip(s) == IF s # <<>> /\ IsSpace(Head(s)) THEN LStrip(Tail(s)) ELSE s

RECURSIVE RStrip(_)
RStrip(s) ==
    IF s # <<>> /\ IsSpace(s[Len(s)]) THEN RStrip(SubSeq(s, 1, Len(s) - 1)) ELSE s

Strip(s) == RStrip(LStrip(s))

\* str.split() without arguments: the maximal runs of non-whitespace
RECURSIVE SplitFrom(_, _, _)
SplitFrom(s, word, acc) ==
    IF s = <<>>
    THEN IF word = <<>> THEN acc ELSE Append(acc, word)
    ELSE IF IsSpace(Head(s))
         THEN SplitFrom(Tail(s), <<>>, IF word = <<>> THEN acc ELSE Append(acc, word))
         ELSE SplitFrom(Tail(s), Append(word, Head(s)), acc)

Split(s) == SplitFrom(s, <<>>, <<>>)

\* Python's  sub in text
Contains(text, sub) ==
    \E k \in 0..(Len(text) - Len(sub)) : SubSeq(text, k + 1, k + Len(sub)) = sub

\* " ".join(words)
RECURSIVE Join(_)
Join(words) ==
    IF words = <<>> THEN <<>>
    ELSE IF Len(words) = 1 THEN words[1]
    ELSE words[1] \o <<" ">> \o Join(Tail(words))

(***************************************************************************)
(* Inputs: the rows the tables may hold and the arguments of a call.       *)
(***************************************************************************)
\* confidence_score floor of the keyword request, in hundredths (0.5)
MinConfidence == 50

\* category_filter = None
None == "None"
\* the "all categories" entry of the category select box
AllCategories == "ALL"
\* category_id of a base query that has no category filter
NoCategory == 0

\* table product_categories
product_categories ==
    << [id |-> 1, category_name |-> "door"], [id |-> 2, category_name |-> "food"] >>

CategoryFilters == {None, AllCategories, "door", "zz"}

\* rows table product_qa may hold
Pool ==
    { [id |-> 1, product_name |-> <<"a", "B">>, question |-> <<>>,
       answer |-> <<>>, confidence_score |-> 50, category_id |-> 1],
      [id |-> 2, product_name |-> <<"A", "b">>, question |-> <<>>,
       answer |-> <<"a", "_">>, confidence_score |-> 90, category_id |-> 2],
      [id |-> 3, product_name |-> <<"a", "_", "b">>, question |-> <<>>,
       answer |-> <<>>, confidence_score |-> 90, category_id |-> 1],
      [id |-> 4, product_name |-> <<"b">>, question |-> <<"a", "b">>,
       answer |-> <<>>, confidence_score |-> 30, category_id |-> 1] }

\* the rows of a set in id order
RECURSIVE InIdOrder(_)
InIdOrder(rows) ==
    IF rows = {} THEN <<>>
    ELSE LET first == CHOOSE r \in rows : \A o \in rows : r.id <= o.id
         IN  <<first>> \o InIdOrder(rows \ {first})

Stores == {InIdOrder(rows) : rows \in {S \in SUBSET Pool : Cardinality(S) <= MaxStore}}

\* words a query is made of: mixed case, an underscore, a one-character word
Words == { <<"A", "b">>, <<"a", "_">>, <<"b">> }

WordLists == UNION {[1..n -> Words] : n \in 0..MaxTokens}

Queries == {Join(ws) : ws \in WordLists}

TopKs == 1..MaxTopK

(***************************************************************************)
(* The store's side of a request.                                          *)
(***************************************************************************)
\* SQL ILIKE: % is any run of characters, _ any one character, case ignored
RECURSIVE ILike(_, _)
ILike(text, pattern) ==
    IF pattern = <<>> THEN text = <<>>
    ELSE IF Head(pattern) = "%"
         THEN ILike(text, Tail(pattern))
              \/ (text # <<>> /\ ILike(Tail(text), pattern))
         ELSE /\ text # <<>>
              /\ \/ Head(pattern) = "_"
                 \/ LowerChar(Head(pattern)) = LowerChar(Head(text))
              /\ ILike(Tail(text), Tail(pattern))

\* the pattern  %{keyword}%  of the or_ filter
Pattern(keyword) == <<"%">> \o keyword \o <<"%">>

\* question.ilike.%kw%,answer.ilike.%kw%,product_name.ilike.%kw%
OrFilter(row, keyword) ==
    \/ ILike(row.question, Pattern(keyword))
    \/ ILike(row.answer, Pattern(keyword))
    \/ ILike(row.product_name, Pattern(keyword))

\* base_query restricted to the category (when one resolved), the or_ filter
\* of one keyword and the confidence floor, executed
KeywordRows(rows, catId, keyword) ==
    SelectSeq(rows, LAMBDA row :
        /\ (catId = NoCategory \/ row.category_id = catId)
        /\ OrFilter(row, keyword)
        /\ row.confidence_score >= MinConfidence)

\* select('id').eq('category_name', name) on product_categories
CategoryRows(name) == SelectSeq(product_categories, LAMBDA c : c.category_name = name)

(***************************************************************************)
(* text_based_search_qa: the computation on the rows received.             *)
(***************************************************************************)
\* Keywords with the length test off by one: one-character words are kept
KeywordsKeepShort(q) ==
    LET words == Split(q)
        kept  == SelectSeq(words, LAMBDA w : Len(Strip(w)) > 0)
    IN  [n \in 1..Len(kept) |-> Strip(kept[n])]

\* keywords = [word.strip() for word in query.split() if len(word.strip()) > 1]
Keywords(q) ==
    LET words == Split(q)
        kept  == SelectSeq(words, LAMBDA w : Len(Strip(w)) > 1)
    IN  [n \in 1..Len(kept) |-> Strip(kept[n])]

\* Dedupe with the id test forgotten: every row received is kept
NoDedupe(rows, seen) == rows

\* unique_results: the first row of every id, in order of first occurrence
RECURSIVE Dedupe(_, _)
Dedupe(rows, seen) ==
    IF rows = <<>> THEN <<>>
    ELSE IF Head(rows).id \in seen
         THEN Dedupe(Tail(rows), seen)
         ELSE <<Head(rows)>> \o Dedupe(Tail(rows), seen \cup {Head(rows).id})

\* qa_text = f"{question} {answer} {product_name}".lower()
QaText(qa) == Lower(qa.question \o <<" ">> \o qa.answer \o <<" ">> \o qa.product_name)

\* InitialScore when the rows were kept from the call before and the count
\* started from the relevance_score they already carry
CarriedScore(qa) ==
    LET old == {n \in 1..Len(prev.ret.value) : prev.ret.value[n].id = qa.id}
    IN  IF old = {} THEN 0 ELSE prev.ret.value[CHOOSE n \in old : TRUE].relevance_score

\* score = 0, before the keywords are counted; the rows of a response are
\* new objects, so nothing is left of an earlier call
InitialScore(qa) == 0

\* for keyword in keywords: if keyword.lower() in qa_text: score += 1
RECURSIVE CountMatches(_, _, _)
CountMatches(kws, text, score) ==
    IF kws = <<>> THEN score
    ELSE CountMatches(Tail(kws), text,
                      IF Contains(text, Lower(Head(kws))) THEN score + 1 ELSE score)

\* qa['relevance_score'] = score
Scored(qa, kws) ==
    [id |-> qa.id, product_name |-> qa.product_name, question |-> qa.question,
     answer |-> qa.answer, confidence_score |-> qa.confidence_score,
     category_id |-> qa.category_id,
     relevance_score |-> CountMatches(kws, QaText(qa), InitialScore(qa))]

ScoreAll(rows, kws) == [n \in 1..Len(rows) |-> Scored(rows[n], kws)]

\* KeyGreater with the confidence_score left out of the sort key
RelevanceGreater(a, b) == a.relevance_score > b.relevance_score

\* the sort key (relevance_score, confidence_score), compared as tuples
KeyGreater(a, b) ==
    \/ a.relevance_score > b.relevance_score
    \/ /\ a.relevance_score = b.relevance_score
       /\ a.confidence_score > b.confidence_score

\* InsertDesc placing a row before the rows of equal key: an unstable sort
RECURSIVE InsertDescUnstable(_, _)
InsertDescUnstable(sorted, x) ==
    IF sorted = <<>> THEN <<x>>
    ELSE IF ~KeyGreater(Head(sorted), x)
         THEN <<x>> \o sorted
         ELSE <<Head(sorted)>> \o InsertDescUnstable(Tail(sorted), x)

\* list.sort(key=..., reverse=True): descending and stable
RECURSIVE InsertDesc(_, _)
InsertDesc(sorted, x) ==
    IF sorted = <<>> THEN <<x>>
    ELSE IF KeyGreater(x, Head(sorted))
         THEN <<x>> \o sorted
         ELSE <<Head(sorted)>> \o InsertDesc(Tail(sorted), x)

RECURSIVE SortFrom(_, _)
SortFrom(rows, sorted) ==
    IF rows = <<>> THEN sorted
    ELSE SortFrom(Tail(rows), InsertDesc(sorted, Head(rows)))

SortDesc(rows) == SortFrom(rows, <<>>)

\* Truncate with the slice forgotten
NoTruncate(rows, k) == rows

\* final_results[:top_k]
Truncate(rows, k) == SubSeq(rows, 1, Min(k, Len(rows)))

\* lines 361-384: deduplicate, score, sort, truncate
Rank(rows, kws, k) == Truncate(SortDesc(ScoreAll(Dedupe(rows, {}), kws)), k)

\* TableAfterScoring when the scored rows were written back to the table
TableWithScores(rows, scored) ==
    [n \in 1..Len(rows) |->
        LET hit == {m \in 1..Len(scored) : scored[m].id = rows[n].id}
        IN  IF hit = {} THEN rows[n] ELSE scored[CHOOSE m \in hit : TRUE]]

\* table product_qa after qa['relevance_score'] = score (line 379): the score
\* is set on the rows of the response, the call sends only selects
TableAfterScoring(rows, scored) == rows

\* BaseCategory filtering on a category no row has when the lookup is empty
MissingCategory(found) == IF found # <<>> THEN found[1].id ELSE -1

\* base_query after the category filter was applied: the filter is applied
\* only when the lookup returned a row
BaseCategory(found) == IF found # <<>> THEN found[1].id ELSE NoCategory

\* NeedsLookup with the test of line 339 forgotten
AlwaysLookup(c) == TRUE

\* the filter is looked up when given and not the "all" entry
NeedsLookup(c) == c # None /\ c # AllCategories

Returned(rows) == [status |-> "returned", value |-> rows]
Running == [status |-> "running", value |-> <<>>]
NoCall == [query |-> <<>>, category_filter |-> None, top_k |-> 0,
           ret |-> [status |-> "none", value |-> <<>>], flipped |-> FALSE]

\* no recommendation has been asked for
NoRecommendation == [status |-> "none", products_info |-> <<>>,
                     total_found |-> 0, total_products |-> 0]

RecommendIdle ==
    /\ qa_list = <<>>
    /\ qi = 1
    /\ products_info = <<>>
    /\ recommendation = NoRecommendation
    /\ rpc = "idle"

\* the source types in the order of line 342 of streamlit_app.py, by their
\* keys in collected_data
Sources == <<"shopping", "blog", "news">>

\* no ingestion runs
IngestIdle ==
    /\ routine = "none"
    /\ feed = <<>>
    /\ si = 1
    /\ ii = 1
    /\ collected_data = [s \in {Sources[n] : n \in 1..Len(Sources)} |-> <<>>]
    /\ saved_count = 0
    /\ results = [s \in {Sources[n] : n \in 1..Len(Sources)} |-> 0]
    /\ documents = <<>>
    /\ processed_items = <<>>
    /\ all_items = <<>>
    /\ ipc = "idle"

\* no script run of main has begun, the session is new
SessionIdle ==
    /\ auto_collection_triggered = <<>>
    /\ auto_collection_query = <<>>
    /\ raw_product_data = <<>>
    /\ epc = "idle"
    /\ initial_results = <<>>
    /\ qa_results = <<>>
    /\ sample = 1
    /\ qa_saved_count = 0
    /\ success = <<>>
    /\ searched = <<>>
    /\ inserted = 0
    /\ entry = <<>>

\* process_product_batch is not running
BatchIdle ==
    /\ products = <<>>
    /\ product_index = 1
    /\ batch_results = <<>>
    /\ raw_data = <<>>
    /\ collected = <<>>
    /\ qa_invoked = <<>>
    /\ bpc = "idle"

\* save_to_database is not running
SaveIdle ==
    /\ processed_data = <<>>
    /\ spc = "idle"
    /\ save_ret = <<>>
    /\ specific_rows = <<>>
    /\ specific_raised = FALSE
    /\ save_calls = 0
    /\ before = <<>>

\* parse_ai_recommendation is not running
ParseIdle ==
    /\ ai_response = <<>>
    /\ line_index = 1
    /\ current_category = None
    /\ current_product = <<>>
    /\ recommendations = <<>>
    /\ fallback = FALSE
    /\ numbered_at = 0
    /\ filed = <<>>
    /\ ppc = "idle"

(***************************************************************************)
(* The state machine.                                                      *)
(***************************************************************************)
Init ==
    /\ store \in Stores
    /\ storeUp \in BOOLEAN
    /\ query \in Queries
    /\ category_filter \in CategoryFilters
    /\ top_k \in TopKs
    /\ pc = "idle"
    /\ keywords = <<>>
    /\ category_id = NoCategory
    /\ ki = 1
    /\ all_results = <<>>
    /\ ret = Running
    /\ sawError = FALSE
    /\ flipped = FALSE
    /\ prev = NoCall
    /\ calls = 0
    /\ reads = 0
    /\ RecommendIdle
    /\ IngestIdle
    /\ SessionIdle
    /\ BatchIdle
    /\ SaveIdle
    /\ ParseIdle

\* text_based_search_qa(q, c, top_k) is entered (lines 329-336); the call
\* that just returned becomes the previous call
BeginCall(q, c) ==
    /\ pc \in {"idle", "done"}
    /\ calls < MaxCalls
    /\ prev' = IF pc = "done"
               THEN [query |-> query, category_filter |-> category_filter,
                     top_k |-> top_k, ret |-> ret, flipped |-> flipped]
               ELSE prev
    /\ query' = q
    /\ category_filter' = c
    /\ keywords' = Keywords(q)
    /\ category_id' = NoCategory
    /\ ki' = 1
    /\ all_results' = <<>>
    /\ ret' = Running
    /\ sawError' = FALSE
    /\ flipped' = FALSE
    /\ calls' = calls + 1
    /\ reads' = 0
    /\ pc' = IF NeedsLookup(c) THEN "category" ELSE "gather"
    /\ UNCHANGED <<store, storeUp, top_k>>
    /\ UNCHANGED exceptSearch

\* the first search of the session
Search ==
    /\ pc = "idle"
    /\ BeginCall(query, category_filter)

\* the page reruns and searches again with the same arguments
Rerun ==
    /\ pc = "done"
    /\ BeginCall(query, category_filter)

\* the search is rerun after one-character words were added to or removed
\* from the query
RerunShortWordsEdited ==
    /\ pc = "done"
    /\ \E q \in Queries :
        /\ q # query
        /\ SelectSeq(Split(q), LAMBDA w : Len(w) > 1)
             = SelectSeq(Split(query), LAMBDA w : Len(w) > 1)
        /\ BeginCall(q, category_filter)

\* the search is rerun after another category was selected
RerunCategoryEdited ==
    /\ pc = "done"
    /\ \E c \in CategoryFilters : c # category_filter /\ BeginCall(query, c)

\* lines 339-343: the category lookup answers
ResolveCategory ==
    /\ pc = "category"
    /\ storeUp
    /\ category_id' = BaseCategory(CategoryRows(category_filter))
    /\ reads' = reads + 1
    /\ pc' = "gather"
    /\ UNCHANGED <<store, storeUp, query, category_filter, top_k, keywords,
                   ki, all_results, ret, sawError, flipped, prev, calls>>
    /\ UNCHANGED exceptSearch

\* line 340 raises: the outer handler (lines 386-388) returns []
ResolveCategoryRaises ==
    /\ pc = "category"
    /\ ~storeUp
    /\ sawError' = TRUE
    /\ reads' = reads + 1
    /\ ret' = Returned(<<>>)
    /\ pc' = "done"
    /\ UNCHANGED <<store, storeUp, query, category_filter, top_k, keywords,
                   category_id, ki, all_results, flipped, prev, calls>>
    /\ UNCHANGED exceptSearch

\* lines 348-356: the request of one keyword answers
GatherKeyword ==
    /\ pc = "gather"
    /\ ki <= Len(keywords)
    /\ Len(keywords[ki]) <= 1 \/ storeUp
    /\ all_results' = IF Len(keywords[ki]) > 1
                      THEN all_results \o KeywordRows(store, category_id, keywords[ki])
                      ELSE all_results
    /\ reads' = IF Len(keywords[ki]) > 1 THEN reads + 1 ELSE reads
    /\ ki' = ki + 1
    /\ UNCHANGED <<store, storeUp, query, category_filter, top_k, pc, keywords,
                   category_id, ret, sawError, flipped, prev, calls>>
    /\ UNCHANGED exceptSearch

\* lines 358-359: the request of one keyword raises, the loop continues
GatherKeywordRaises ==
    /\ pc = "gather"
    /\ ki <= Len(keywords)
    /\ Len(keywords[ki]) > 1
    /\ ~storeUp
    /\ sawError' = TRUE
    /\ reads' = reads + 1
    /\ ki' = ki + 1
    /\ UNCHANGED <<store, storeUp, query, category_filter, top_k, pc, keywords,
                   category_id, all_results, ret, flipped, prev, calls>>
    /\ UNCHANGED exceptSearch

\* lines 361-384: after the loop, the result is computed and returned
RankAndReturn ==
    /\ pc = "gather"
    /\ ki > Len(keywords)
    /\ ret' = Returned(Rank(all_results, keywords, top_k))
    /\ store' = TableAfterScoring(store, Rank(all_results, keywords, top_k))
    /\ pc' = "done"
    /\ UNCHANGED <<storeUp, query, category_filter, top_k, keywords,
                   category_id, ki, all_results, sawError, flipped, prev, calls, reads>>
    /\ UNCHANGED exceptSearch

\* while a call runs, the store becomes unreachable, or reachable again
Flip ==
    /\ pc \in {"category", "gather"}
    /\ storeUp' = ~storeUp
    /\ flipped' = TRUE
    /\ UNCHANGED <<store, query, category_filter, top_k, pc, keywords, category_id,
                   ki, all_results, ret, sawError, prev, calls, reads>>
    /\ UNCHANGED exceptSearch

\* one call, against a store that may come and go while the call runs
Next ==
    \/ Search
    \/ ResolveCategory
    \/ ResolveCategoryRaises
    \/ GatherKeyword
    \/ GatherKeywordRaises
    \/ RankAndReturn
    \/ Flip

Spec == Init /\ [][Next]_vars

\* consecutive calls against a store that does not change: it stays reachable,
\* or stays unreachable
NextRerun ==
    \/ Search
    \/ Rerun
    \/ RerunShortWordsEdited
    \/ RerunCategoryEdited
    \/ ResolveCategory
    \/ ResolveCategoryRaises
    \/ GatherKeyword
    \/ GatherKeywordRaises
    \/ RankAndReturn

SpecRerun == Init /\ [][NextRerun]_vars

(***************************************************************************)
(* Grouping for display: create_direct_recommendation of                   *)
(* src/streamlit_qa_app.py.  A record of qa_list keeps the fields the      *)
(* grouping reads: product_name, relevance_score and confidence_score.     *)
(* products_info is a Python dict: a sequence of groups in insertion       *)
(* order, one per key.  avg_confidence is kept as the fraction             *)
(* total / count and two averages are compared by cross-multiplication.    *)
(* brand, question_types and auto_generated of a group are left out.       *)
(***************************************************************************)
MaxList == 3

\* product names of the ranked records
ProductNames == { <<"a", "B">>, <<"b">> }

\* ranked records the function may be handed
RankedPool ==
    { [product_name |-> p, relevance_score |-> r, confidence_score |-> c] :
        p \in ProductNames, r \in 1..2, c \in {MinConfidence, 90} }

QaLists == UNION {[1..n -> RankedPool] : n \in 0..MaxList}

\* the retrieval is not running
SearchIdle ==
    /\ store = <<>>
    /\ query = <<>>
    /\ category_filter = None
    /\ top_k = 1
    /\ pc = "idle"
    /\ keywords = <<>>
    /\ category_id = NoCategory
    /\ ki = 1
    /\ all_results = <<>>
    /\ ret = Running
    /\ sawError = FALSE
    /\ flipped = FALSE
    /\ prev = NoCall
    /\ calls = 0
    /\ reads = 0

\* product_name not in products_info (line 480)
HasGroup(info, name) == \E n \in 1..Len(info) : info[n].product_name = name

GroupAt(info, name) == CHOOSE n \in 1..Len(info) : info[n].product_name = name

\* lines 481-489: the entry of a new product
NewGroup(qa) ==
    [product_name |-> qa.product_name, answers |-> <<>>, total_confidence |-> 0,
     count |-> 0, best_qa |-> qa]

\* lines 491-497: the entry appended to answers
Answer(qa) == [confidence |-> qa.confidence_score, relevance |-> qa.relevance_score]

\* the representative is replaced by every record of the group
AlwaysBetter(qa, best) == TRUE

\* line 508: the record is more relevant than the representative
BetterThanBest(qa, best) == qa.relevance_score > best.relevance_score

\* lines 479-509: one pass of the loop body
AddRecord(info, qa) ==
    LET base == IF HasGroup(info, qa.product_name) THEN info
                ELSE Append(info, NewGroup(qa))
        n == GroupAt(base, qa.product_name)
        g == base[n]
    IN  [base EXCEPT ![n] =
            [g EXCEPT !.answers = Append(@, Answer(qa)),
                      !.total_confidence = @ + qa.confidence_score,
                      !.count = @ + 1,
                      !.best_qa = IF BetterThanBest(qa, g.best_qa) THEN qa ELSE @]]

Max(a, b) == IF a >= b THEN a ELSE b

\* lines 512-514: avg_confidence = total_confidence / max(count, 1)
WithAverage(g) ==
    [product_name |-> g.product_name, answers |-> g.answers,
     total_confidence |-> g.total_confidence, count |-> g.count,
     best_qa |-> g.best_qa,
     avg_confidence |-> [total |-> g.total_confidence, count |-> Max(g.count, 1)]]

Averaged(info) == [n \in 1..Len(info) |-> WithAverage(info[n])]

\* a / b > c / d for positive b, d
FractionGreater(x, y) == x.total * y.count > y.total * x.count

\* groups compared by the relevance of the representative only
GroupRelevanceGreater(a, b) ==
    a.best_qa.relevance_score > b.best_qa.relevance_score

\* the sort key of lines 520-523, compared as Python compares tuples
GroupKeyGreater(a, b) ==
    \/ a.best_qa.relevance_score > b.best_qa.relevance_score
    \/ /\ a.best_qa.relevance_score = b.best_qa.relevance_score
       /\ FractionGreater(a.avg_confidence, b.avg_confidence)

\* sorted(..., reverse=True) is stable: a group goes behind the groups that
\* are not smaller
RECURSIVE InsertGroup(_, _)
InsertGroup(sorted, x) ==
    IF sorted = <<>> THEN <<x>>
    ELSE IF GroupKeyGreater(x, Head(sorted))
         THEN <<x>> \o sorted
         ELSE <<Head(sorted)>> \o InsertGroup(Tail(sorted), x)

RECURSIVE SortGroupsFrom(_, _)
SortGroupsFrom(groups, sorted) ==
    IF groups = <<>> THEN sorted
    ELSE SortGroupsFrom(Tail(groups), InsertGroup(sorted, Head(groups)))

\* lines 518-525
SortGroups(groups) == SortGroupsFrom(groups, <<>>)

\* total_found counts the groups
TotalFoundGroups(list, info) == Len(info)

\* line 530: total_found = len(qa_list)
TotalFound(list, info) == Len(list)

\* lines 472-473
RecommendationError ==
    [status |-> "error", products_info |-> <<>>, total_found |-> 0, total_products |-> 0]

\* lines 527-532
Recommended(list, info) ==
    [status |-> "ok", products_info |-> SortGroups(info),
     total_found |-> TotalFound(list, info), total_products |-> Len(info)]

InitRecommend ==
    /\ SearchIdle
    /\ storeUp = TRUE
    /\ IngestIdle
    /\ qa_list \in QaLists
    /\ qi = 1
    /\ products_info = <<>>
    /\ recommendation = NoRecommendation
    /\ rpc = "idle"
    /\ SessionIdle
    /\ BatchIdle
    /\ SaveIdle
    /\ ParseIdle

\* lines 472-473: nothing to recommend from
RecommendNothing ==
    /\ rpc = "idle"
    /\ qa_list = <<>>
    /\ recommendation' = RecommendationError
    /\ rpc' = "done"
    /\ UNCHANGED <<qa_list, qi, products_info>>
    /\ UNCHANGED exceptRecommend

\* lines 475-476: the loop is entered
EnterGrouping ==
    /\ rpc = "idle"
    /\ qa_list # <<>>
    /\ products_info' = <<>>
    /\ qi' = 1
    /\ rpc' = "group"
    /\ UNCHANGED <<qa_list, recommendation>>
    /\ UNCHANGED exceptRecommend

\* lines 478-509: one record is put into its group
GroupRecord ==
    /\ rpc = "group"
    /\ qi <= Len(qa_list)
    /\ products_info' = AddRecord(products_info, qa_list[qi])
    /\ qi' = qi + 1
    /\ UNCHANGED <<qa_list, recommendation, rpc>>
    /\ UNCHANGED exceptRecommend

\* lines 511-532: averages, the sort and the return
SortAndReturn ==
    /\ rpc = "group"
    /\ qi > Len(qa_list)
    /\ products_info' = Averaged(products_info)
    /\ recommendation' = Recommended(qa_list, Averaged(products_info))
    /\ rpc' = "done"
    /\ UNCHANGED <<qa_list, qi>>
    /\ UNCHANGED exceptRecommend

NextRecommend ==
    \/ RecommendNothing
    \/ EnterGrouping
    \/ GroupRecord
    \/ SortAndReturn

SpecRecommend == InitRecommend /\ [][NextRecommend]_vars

(***************************************************************************)
(* The ingestion normalizer: process_shopping_item, process_blog_item and  *)
(* process_news_item of src/streamlit_app.py, and clean_html_tags of       *)
(* src/data_collector.py.  A value that may be None is a sequence of no    *)
(* or one value.  A record keeps title, the title and description that     *)
(* content interpolates, url, source_type and the price or the date;       *)
(* embedding and the fields copied unchanged from the item are left out.   *)
(***************************************************************************)

\* re.sub('<[^<]+?>', '', text): where s starts with "<", the position of
\* the nearest ">" that has at least one character, none of them "<",
\* between the two; 0 when there is none
TagEnd(s) ==
    LET ends == {j \in 3..Len(s) : s[j] = ">" /\ \A k \in 2..(j - 1) : s[k] # "<"}
    IN  IF ends = {} THEN 0 ELSE CHOOSE j \in ends : \A k \in ends : j <= k

RECURSIVE StripTags(_)
StripTags(s) ==
    IF s = <<>> THEN <<>>
    ELSE IF Head(s) = "<" /\ TagEnd(s) # 0
         THEN StripTags(SubSeq(s, TagEnd(s) + 1, Len(s)))
         ELSE <<Head(s)>> \o StripTags(Tail(s))

\* str.replace(old, new)
RECURSIVE Replace(_, _, _)
Replace(s, old, new) ==
    IF s = <<>> THEN <<>>
    ELSE IF Len(s) >= Len(old) /\ SubSeq(s, 1, Len(old)) = old
         THEN new \o Replace(SubSeq(s, Len(old) + 1, Len(s)), old, new)
         ELSE <<Head(s)>> \o Replace(Tail(s), old, new)

\* re.sub(r'\s+', ' ', text)
RECURSIVE CollapseWhitespace(_)
CollapseWhitespace(s) ==
    IF s = <<>> THEN <<>>
    ELSE IF IsSpace(Head(s))
         THEN <<" ">> \o CollapseWhitespace(LStrip(s))
         ELSE <<Head(s)>> \o CollapseWhitespace(Tail(s))

\* lines 321-325 of data_collector.py
ReplaceEntities(s) ==
    Replace(Replace(Replace(Replace(s,
        <<"&", "q", "u", "o", "t", ";">>, <<"\"">>),
        <<"&", "a", "m", "p", ";">>, <<"&">>),
        <<"&", "l", "t", ";">>, <<"<">>),
        <<"&", "g", "t", ";">>, <<">">>)

\* NaverDataCollector.clean_html_tags
clean_html_tags(text) ==
    IF text = <<>> THEN <<>>
    ELSE Strip(CollapseWhitespace(ReplaceEntities(StripTags(text))))

DigitChars == <<"0", "1", "2", "3", "4", "5", "6", "7", "8", "9">>

IsDigit(c) == \E n \in 1..Len(DigitChars) : DigitChars[n] = c

DigitValue(c) == (CHOOSE n \in 1..Len(DigitChars) : DigitChars[n] = c) - 1

\* the value of a sequence of digits
RECURSIVE Number(_)
Number(s) ==
    IF s = <<>> THEN 0 ELSE Number(SubSeq(s, 1, Len(s) - 1)) * 10 + DigitValue(s[Len(s)])

AllDigits(s) == \A n \in 1..Len(s) : IsDigit(s[n])

Unsigned(s) == IF s # <<>> /\ Head(s) \in {"+", "-"} THEN Tail(s) ELSE s

\* int(text) does not raise ValueError: whitespace, a sign, digits
IsInt(text) == Unsigned(Strip(text)) # <<>> /\ AllDigits(Unsigned(Strip(text)))

\* int(text)
IntValue(text) ==
    IF Strip(text) # <<>> /\ Head(Strip(text)) = "-"
    THEN 0 - Number(Unsigned(Strip(text)))
    ELSE Number(Unsigned(Strip(text)))

IsLeap(y) == (y % 4 = 0 /\ y % 100 # 0) \/ y % 400 = 0

DaysInMonth(y, m) ==
    IF m = 2 THEN (IF IsLeap(y) THEN 29 ELSE 28)
    ELSE IF m \in {4, 6, 9, 11} THEN 30 ELSE 31

\* datetime(y, m, d) exists
IsDate(y, m, d) == y >= 1 /\ m \in 1..12 /\ d >= 1 /\ d <= DaysInMonth(y, m)

NonZeroDigit(c) == IsDigit(c) /\ c # "0"

\* %m is the regular expression 1[0-2]|0[1-9]|[1-9]: the lengths of the
\* alternatives that match at the start of s, in their order
MonthLengths(s) ==
    (IF Len(s) >= 2 /\ s[1] = "1" /\ s[2] \in {"0", "1", "2"} THEN <<2>> ELSE <<>>)
    \o (IF Len(s) >= 2 /\ s[1] = "0" /\ NonZeroDigit(s[2]) THEN <<2>> ELSE <<>>)
    \o (IF Len(s) >= 1 /\ NonZeroDigit(s[1]) THEN <<1>> ELSE <<>>)

\* %d is 3[01]|[12]\d|0[1-9]|[1-9]| [1-9]: the length of the first alternative
\* that matches at the start of s, or 0
DayLength(s) ==
    IF Len(s) >= 2 /\ s[1] = "3" /\ s[2] \in {"0", "1"} THEN 2
    ELSE IF Len(s) >= 2 /\ s[1] \in {"1", "2"} /\ IsDigit(s[2]) THEN 2
    ELSE IF Len(s) >= 2 /\ s[1] = "0" /\ NonZeroDigit(s[2]) THEN 2
    ELSE IF Len(s) >= 1 /\ NonZeroDigit(s[1]) THEN 1
    ELSE IF Len(s) >= 2 /\ s[1] = " " /\ NonZeroDigit(s[2]) THEN 2
    ELSE 0

\* datetime.strptime(text, '%Y%m%d').date(): the date, or nothing where
\* strptime raises ValueError (no match, unconverted data, no such day)
ParsePostdate(text) ==
    IF Len(text) < 4 \/ ~AllDigits(SubSeq(text, 1, 4)) THEN <<>>
    ELSE
      LET rest == SubSeq(text, 5, Len(text))
          fits == SelectSeq(MonthLengths(rest),
                            LAMBDA l : DayLength(SubSeq(rest, l + 1, Len(rest))) > 0)
      IN  IF fits = <<>> THEN <<>>
          ELSE
            LET ml == fits[1]
                dl == DayLength(SubSeq(rest, ml + 1, Len(rest)))
                y == Number(SubSeq(text, 1, 4))
                m == Number(SubSeq(rest, 1, ml))
                d == Number(SelectSeq(SubSeq(rest, ml + 1, ml + dl), IsDigit))
            IN  IF ml + dl # Len(rest) \/ ~IsDate(y, m, d) THEN <<>>
                ELSE <<[year |-> y, month |-> m, day |-> d]>>

WeekdayNames == <<"Mon", "Tue", "Wed", "Thu", "Fri", "Sat", "Sun">>

MonthNames == <<"Jan", "Feb", "Mar", "Apr", "May", "Jun",
                "Jul", "Aug", "Sep", "Oct", "Nov", "Dec">>

\* one or two digits
ShortNumber(s) == Len(s) \in {1, 2} /\ AllDigits(s)

\* %z: Z, or a sign, two digits of hours and two of minutes below 60
IsZone(z) ==
    \/ z = <<"Z">>
    \/ /\ Len(z) = 5
       /\ z[1] \in {"+", "-"}
       /\ AllDigits(Tail(z))
       /\ Number(SubSeq(z, 4, 5)) < 60

\* datetime.strptime(text, '%a, %d %b %Y %H:%M:%S %z').date() on a text that
\* is given by its parts between the separators of the format: the date, or
\* nothing where strptime raises ValueError.  The weekday is not compared
\* with the date.
ParsePubDate(p) ==
    IF /\ \E n \in 1..Len(WeekdayNames) : WeekdayNames[n] = p.a
       /\ \E n \in 1..Len(MonthNames) : MonthNames[n] = p.b
       /\ ShortNumber(p.d) /\ DayLength(p.d) = Len(p.d)
       /\ Len(p.Y) = 4 /\ AllDigits(p.Y)
       /\ ShortNumber(p.H) /\ Number(p.H) <= 23
       /\ ShortNumber(p.M) /\ Number(p.M) <= 59
       /\ ShortNumber(p.S) /\ Number(p.S) <= 59
       /\ IsZone(p.z)
       /\ IsDate(Number(p.Y),
                 CHOOSE n \in 1..Len(MonthNames) : MonthNames[n] = p.b,
                 Number(p.d))
    THEN <<[year |-> Number(p.Y),
            month |-> CHOOSE n \in 1..Len(MonthNames) : MonthNames[n] = p.b,
            day |-> Number(p.d)]>>
    ELSE <<>>

\* an except clause around strptime that lets the ValueError through
ParseFailureUncaught(parsed) == parsed = <<>>

\* lines 407-410 and 432-435 of streamlit_app.py: try ... except: pass, no
\* failure of strptime leaves the try block
ParseFailureEscapes(parsed) == FALSE

\* int(item.get('lprice', 0)) if item.get('lprice') else ... raises
PriceRaises(item) == item.lprice # <<>> /\ ~IsInt(item.lprice)

\* the call for an item of the source raises
Raises(source, item) ==
    CASE source = "shopping" -> PriceRaises(item)
      [] source = "blog" ->
            item.postdate # <<>> /\ ParseFailureEscapes(ParsePostdate(item.postdate))
      [] source = "news" ->
            item.pubDate # <<>> /\ ParseFailureEscapes(ParsePubDate(item.pubDate[1]))

\* lines 375-396 of streamlit_app.py
process_shopping_item(item) ==
    [title |-> StripTags(item.title),
     content |-> [title |-> StripTags(item.title),
                  description |-> StripTags(item.description)],
     url |-> item.link,
     source_type |-> "shopping",
     price_min |-> IF item.lprice # <<>> THEN <<IntValue(item.lprice)>> ELSE <<>>]

\* lines 398-421
process_blog_item(item) ==
    [title |-> StripTags(item.title),
     content |-> [title |-> StripTags(item.title),
                  description |-> StripTags(item.description)],
     url |-> item.link,
     source_type |-> "blog",
     pub_date |-> IF item.postdate # <<>> THEN ParsePostdate(item.postdate) ELSE <<>>]

\* lines 423-453
process_news_item(item) ==
    [title |-> StripTags(item.title),
     content |-> [title |-> StripTags(item.title),
                  description |-> StripTags(item.description)],
     url |-> item.link,
     source_type |-> "news",
     pub_date |-> IF item.pubDate # <<>> THEN ParsePubDate(item.pubDate[1]) ELSE <<>>]

\* lines 349-355: the normalizer of the source
Process(source, item) ==
    CASE source = "shopping" -> process_shopping_item(item)
      [] source = "blog" -> process_blog_item(item)
      [] source = "news" -> process_news_item(item)

\* lines 86-101 of data_collector.py: the processed_item of a shopping item
CollectedItem(item) ==
    [title |-> clean_html_tags(item.title),
     description |-> clean_html_tags(item.description),
     link |-> item.link,
     lprice |-> IF item.lprice # <<>> THEN IntValue(item.lprice) ELSE 0]

\* the urls of the rows of a table
Urls(rows) == {rows[n].url : n \in 1..Len(rows)}

\* the duplicate check finds nothing
ExistingNever(rows, url) == <<>>

\* line 459: select('id').eq('url', url) on documents
Existing(rows, url) == SelectSeq(rows, LAMBDA row : row.url = url)

\* lines 465-482: the row the insert adds to documents
DocumentRow(rows, record) ==
    [id |-> Len(rows) + 1, url |-> record.url, source_type |-> record.source_type]

\* save_to_database, lines 455-496 of streamlit_app.py: the row is inserted
\* when the store answers and has no document of that url
Saves(record, up, rows) == up /\ Existing(rows, record.url) = <<>>

\* the exception of an item ends the loop over the items
AbortLoop(i, n) == n + 1

\* except ...: continue, lines 364-365 of streamlit_app.py and 103-105 of
\* data_collector.py: the loop goes on with the next item
AfterException(i, n) == i + 1

MaxItems == 2

\* number of search keywords of collect_shopping_data
NumKeywords == 2

\* an item of the shop endpoint: tags, an entity and untidy whitespace
TaggedItem ==
    [title |-> <<"<", "b", ">", "a", "<", "/", "b", ">", " ", " ", "b", " ">>,
     description |-> <<"a", " ", "&", "a", "m", "p", ";", " ", " ", "b">>,
     link |-> "u1", lprice |-> <<"1", "2">>]

\* an item whose price is no number
BadPriceItem ==
    [title |-> <<"a">>, description |-> <<"b">>, link |-> "u2", lprice |-> <<"x">>]

\* an item without price, with the link of the first
UnpricedItem ==
    [title |-> <<"a">>, description |-> <<>>, link |-> "u1", lprice |-> <<>>]

ShoppingItems == {TaggedItem, BadPriceItem, UnpricedItem}

\* the items the search of a keyword of collect_shopping_data returns
KeywordItems == {TaggedItem, BadPriceItem}

\* items of the blog endpoint: a postdate that parses, and month 13
BlogItems ==
    { [title |-> <<"a">>, description |-> <<"b">>, link |-> "u3",
       postdate |-> <<"2", "0", "2", "4", "0", "1", "1", "5">>],
      [title |-> <<"<", "i", ">", "a", "<", "/", "i", ">">>, description |-> <<"b">>,
       link |-> "u4", postdate |-> <<"2", "0", "2", "4", "1", "3", "0", "1">>] }

PubDate(d) ==
    [a |-> "Mon", d |-> d, b |-> "Jan", Y |-> <<"2", "0", "2", "4">>,
     H |-> <<"1", "0">>, M |-> <<"0", "0">>, S |-> <<"0", "0">>,
     z |-> <<"+", "0", "9", "0", "0">>]

\* items of the news endpoint: a pubDate that parses, day 32, and no pubDate
NewsItems ==
    { [title |-> <<"a">>, description |-> <<"b">>, link |-> "u5",
       pubDate |-> <<PubDate(<<"1", "5">>)>>],
      [title |-> <<"a">>, description |-> <<"b">>, link |-> "u6",
       pubDate |-> <<PubDate(<<"3", "2">>)>>],
      [title |-> <<"b">>, description |-> <<>>, link |-> "u5", pubDate |-> <<>>] }

ItemLists(pool) == UNION {[1..n -> pool] : n \in 0..MaxItems}

\* process_and_save_data or collect_shopping_data is entered
InitIngest ==
    /\ SearchIdle
    /\ RecommendIdle
    /\ \/ /\ routine = "process_and_save_data"
          /\ storeUp \in BOOLEAN
          /\ \E s \in ItemLists(ShoppingItems), b \in ItemLists(BlogItems),
                n \in ItemLists(NewsItems) : feed = <<s, b, n>>
       \/ /\ routine = "collect_shopping_data"
          /\ storeUp = TRUE
          /\ feed \in [1..NumKeywords -> ItemLists(KeywordItems)]
    /\ si = 1
    /\ ii = 1
    /\ collected_data = [s \in {Sources[n] : n \in 1..Len(Sources)} |-> <<>>]
    /\ saved_count = 0
    /\ results = [s \in {Sources[n] : n \in 1..Len(Sources)} |-> 0]
    /\ documents = <<>>
    /\ processed_items = <<>>
    /\ all_items = <<>>
    /\ ipc = "items"
    /\ SessionIdle
    /\ BatchIdle
    /\ SaveIdle
    /\ ParseIdle

\* the inner loop of the routine is at an item
AtItem(r) ==
    /\ routine = r
    /\ ipc = "items"
    /\ si <= Len(feed)
    /\ ii <= Len(feed[si])

\* the inner loop of the routine is past the last item
PastItems(r) ==
    /\ routine = r
    /\ ipc = "items"
    /\ si <= Len(feed)
    /\ ii > Len(feed[si])

\* lines 347-362 of streamlit_app.py: the item is processed, collected and
\* handed to save_to_database
ProcessItem ==
    /\ AtItem("process_and_save_data")
    /\ ~Raises(Sources[si], feed[si][ii])
    /\ LET record == Process(Sources[si], feed[si][ii])
       IN  /\ collected_data' =
                 [collected_data EXCEPT ![Sources[si]] = Append(@, record)]
           /\ IF Saves(record, storeUp, documents)
              THEN /\ documents' = Append(documents, DocumentRow(documents, record))
                   /\ saved_count' = saved_count + 1
              ELSE UNCHANGED <<documents, saved_count>>
    /\ ii' = ii + 1
    /\ UNCHANGED <<routine, feed, si, results, processed_items, all_items, ipc>>
    /\ UNCHANGED exceptIngest

\* lines 364-365: the normalizer raises, the item is skipped
ProcessItemRaises ==
    /\ AtItem("process_and_save_data")
    /\ Raises(Sources[si], feed[si][ii])
    /\ ii' = AfterException(ii, Len(feed[si]))
    /\ UNCHANGED <<routine, feed, si, collected_data, saved_count, results,
                   documents, processed_items, all_items, ipc>>
    /\ UNCHANGED exceptIngest

\* lines 367-368 and 342-345: the count of the source is stored and the next
\* source begins
NextSource ==
    /\ PastItems("process_and_save_data")
    /\ results' = [results EXCEPT ![Sources[si]] = saved_count]
    /\ saved_count' = 0
    /\ si' = si + 1
    /\ ii' = 1
    /\ UNCHANGED <<routine, feed, collected_data, documents, processed_items,
                   all_items, ipc>>
    /\ UNCHANGED exceptIngest

\* lines 370-373: after the last source
ReturnResults ==
    /\ routine = "process_and_save_data"
    /\ ipc = "items"
    /\ si > Len(feed)
    /\ ipc' = "done"
    /\ UNCHANGED <<routine, feed, si, ii, collected_data, saved_count, results,
                   documents, processed_items, all_items>>
    /\ UNCHANGED exceptIngest

\* lines 84-102 of data_collector.py: the item is processed
CollectItem ==
    /\ AtItem("collect_shopping_data")
    /\ ~PriceRaises(feed[si][ii])
    /\ processed_items' = Append(processed_items, CollectedItem(feed[si][ii]))
    /\ ii' = ii + 1
    /\ UNCHANGED <<routine, feed, si, collected_data, saved_count, results,
                   documents, all_items, ipc>>
    /\ UNCHANGED exceptIngest

\* lines 103-105: building the item raises, the item is skipped
CollectItemRaises ==
    /\ AtItem("collect_shopping_data")
    /\ PriceRaises(feed[si][ii])
    /\ ii' = AfterException(ii, Len(feed[si]))
    /\ UNCHANGED <<routine, feed, si, collected_data, saved_count, results,
                   documents, processed_items, all_items, ipc>>
    /\ UNCHANGED exceptIngest

\* lines 107-108 and 80-82: the items of the keyword are added and the next
\* keyword begins
NextKeyword ==
    /\ PastItems("collect_shopping_data")
    /\ all_items' = all_items \o processed_items
    /\ processed_items' = <<>>
    /\ si' = si + 1
    /\ ii' = 1
    /\ UNCHANGED <<routine, feed, collected_data, saved_count, results,
                   documents, ipc>>
    /\ UNCHANGED exceptIngest

\* line 110: after the last keyword
ReturnItems ==
    /\ routine = "collect_shopping_data"
    /\ ipc = "items"
    /\ si > Len(feed)
    /\ ipc' = "done"
    /\ UNCHANGED <<routine, feed, si, ii, collected_data, saved_count, results,
                   documents, processed_items, all_items>>
    /\ UNCHANGED exceptIngest

NextIngest ==
    \/ ProcessItem
    \/ ProcessItemRaises
    \/ NextSource
    \/ ReturnResults
    \/ CollectItem
    \/ CollectItemRaises
    \/ NextKeyword
    \/ ReturnItems

SpecIngest == InitIngest /\ [][NextIngest]_vars

(***************************************************************************)
(* One script run of main of src/streamlit_qa_app.py: the search button,   *)
(* enhanced_text_based_search_qa and auto_collect_and_generate_qa_fixed.   *)
(* A session key that is absent is the empty sequence, a present one a     *)
(* sequence of its value.  A call of text_based_search_qa is one step      *)
(* against a store that is reachable, or not, for the whole call.  An      *)
(* insert into a reachable store stores the row and answers with it, or    *)
(* stores nothing and answers without data; into an unreachable store it   *)
(* raises.  The fixed wording of a generated question or answer is the     *)
(* mark "?", which no query holds.  Table product_categories has its food  *)
(* row, so ensure_food_category (lines 65-81) writes nothing.              *)
(***************************************************************************)

\* the rows of every keyword request, lines 346-359
RECURSIVE GatherAll(_, _, _)
GatherAll(rows, catId, kws) ==
    IF kws = <<>> THEN <<>>
    ELSE KeywordRows(rows, catId, Head(kws)) \o GatherAll(rows, catId, Tail(kws))

\* text_based_search_qa(q, c, k): with an unreachable store the category
\* lookup or every keyword request raises, and the call returns []
SearchResult(rows, up, q, c, k) ==
    IF ~up THEN <<>>
    ELSE Rank(GatherAll(rows,
                        IF NeedsLookup(c) THEN BaseCategory(CategoryRows(c))
                        ELSE NoCategory,
                        Keywords(q)),
              Keywords(q), k)

\* line 230: the category of a query that holds no category keyword
DefaultCategory == 2

\* lines 85 and 130: the category of food
FoodCategory == 6

\* lines 218-225: category ids and keywords of theirs, in the order of the dict
category_keywords ==
    << [id |-> 1, words |-> { <<"d", "o", "o", "r">> }],
       [id |-> 2, words |-> { <<"p", "c">> }],
       [id |-> FoodCategory, words |-> { <<"f", "o", "o", "d">> }] >>

\* lines 230-236
EstimatedCategory(q) ==
    LET hits == SelectSeq(category_keywords,
                          LAMBDA e : \E w \in e.words : Contains(Lower(q), w))
    IN  IF hits = <<>> THEN DefaultCategory ELSE hits[1].id

Mark == <<"?">>

\* generate_qa_samples, lines 128-191: question, answer and confidence_score
\* of the four samples
QaSamples(name, catId) ==
    << [question |-> name \o <<" ">> \o Mark,
        answer |-> name \o Mark, confidence_score |-> 80],
       [question |-> Mark \o <<" ">> \o name \o <<" ">> \o Mark,
        answer |-> Mark \o <<" ">> \o name \o Mark, confidence_score |-> 75],
       [question |-> name \o <<" ">> \o Mark,
        answer |-> name \o Mark, confidence_score |-> 70],
       [question |-> name \o <<" ">> \o Mark,
        answer |-> name \o Mark,
        confidence_score |-> IF catId = FoodCategory THEN 80 ELSE 70] >>

\* the id the store gives the next row of a table
NextId(rows) ==
    IF rows = <<>> THEN 1
    ELSE 1 + (CHOOSE m \in {rows[n].id : n \in 1..Len(rows)} :
                  \A n \in 1..Len(rows) : rows[n].id <= m)

\* lines 281-295: the row of one sample
QaRow(rows, q, n) ==
    LET qa == QaSamples(Strip(q), EstimatedCategory(q))[n]
    IN  [id |-> NextId(rows), product_name |-> Strip(q),
         question |-> qa.question, answer |-> qa.answer,
         confidence_score |-> qa.confidence_score,
         category_id |-> EstimatedCategory(q)]

\* the button starts a search for every query
NeverRejects(q) == FALSE

\* lines 709-711: if not query.strip()
Rejects(q) == Strip(q) = <<>>

\* the offer is made whatever the search found
OffersAlways(found) == TRUE

\* line 397: if not results
Offers(found) == found = <<>>

\* lines 407-411: the keys are created when absent
TriggeredOrDefault == IF auto_collection_triggered = <<>> THEN FALSE
                      ELSE auto_collection_triggered[1]

QueryOrDefault == IF auto_collection_query = <<>> THEN <<>>
                  ELSE auto_collection_query[1]

\* lines 414-416: the flag once the keys exist and the query was compared
FlagBeforeButtons == IF QueryOrDefault # query THEN FALSE ELSE TriggeredOrDefault

\* the flag stays as it is after a generation
FlagKept(flag) == flag

\* lines 450, 460: st.session_state.auto_collection_triggered = False
FlagAfterGeneration(flag) == FALSE

\* the generation reports success whatever was saved
SucceededAlways(n) == TRUE

\* line 313: if saved_count > 0
Succeeded(n) == n > 0

\* queries of the text input: empty, blank, a word behind a blank, a word of
\* one character
SessionQueries == { <<>>, <<" ">>, <<" ", "A", "b">>, <<"b">> }

\* what main hands over as category_filter (line 718)
SessionCategories == {None, "door"}

InitSession ==
    /\ store \in Stores
    /\ storeUp \in BOOLEAN
    /\ query = <<>>
    /\ category_filter = None
    /\ top_k = 1
    /\ pc = "idle"
    /\ keywords = <<>>
    /\ category_id = NoCategory
    /\ ki = 1
    /\ all_results = <<>>
    /\ ret = Running
    /\ sawError = FALSE
    /\ flipped = FALSE
    /\ prev = NoCall
    /\ calls = 0
    /\ reads = 0
    /\ RecommendIdle
    /\ IngestIdle
    /\ \/ auto_collection_triggered = <<>> /\ auto_collection_query = <<>>
       \/ /\ auto_collection_triggered \in {<<TRUE>>, <<FALSE>>}
          /\ auto_collection_query \in {<<q>> : q \in SessionQueries}
    /\ raw_product_data = <<>>
    /\ epc = "idle"
    /\ initial_results = <<>>
    /\ qa_results = <<>>
    /\ sample = 1
    /\ qa_saved_count = 0
    /\ success = <<>>
    /\ searched = <<>>
    /\ inserted = 0
    /\ entry = <<>>
    /\ BatchIdle
    /\ SaveIdle
    /\ ParseIdle

generationVars == <<raw_product_data, sample, qa_saved_count, success, inserted>>

\* lines 709-712: the button with a query that strips to nothing
RejectQuery ==
    /\ epc = "idle"
    /\ \E q \in SessionQueries :
          /\ Rejects(q)
          /\ query' = q
    /\ epc' = "ended"
    /\ UNCHANGED <<store, storeUp, category_filter, top_k, exceptSession>>
    /\ UNCHANGED <<auto_collection_triggered, auto_collection_query, generationVars,
                   initial_results, qa_results, searched, entry>>

\* lines 709-720: the button calls enhanced_text_based_search_qa
EnterSearch ==
    /\ epc = "idle"
    /\ \E q \in SessionQueries, c \in SessionCategories, k \in TopKs :
          /\ ~Rejects(q)
          /\ query' = q
          /\ category_filter' = c
          /\ top_k' = k
          /\ searched' = Append(searched, q)
    /\ entry' = <<[store |-> store,
                   auto_collection_triggered |-> auto_collection_triggered,
                   auto_collection_query |-> auto_collection_query]>>
    /\ epc' = "search"
    /\ UNCHANGED <<store, storeUp, exceptSession>>
    /\ UNCHANGED <<auto_collection_triggered, auto_collection_query, generationVars,
                   initial_results, qa_results>>

\* lines 394-416 and 462: the first search; an empty result creates the
\* session keys and compares the query, any other is returned
InitialSearch ==
    /\ epc = "search"
    /\ LET found == SearchResult(store, storeUp, query, category_filter, top_k)
       IN  /\ initial_results' = found
           /\ IF Offers(found)
              THEN /\ auto_collection_triggered' = <<FlagBeforeButtons>>
                   /\ auto_collection_query' = <<query>>
                   /\ qa_results' = qa_results
                   /\ epc' = "buttons"
              ELSE /\ qa_results' = found
                   /\ epc' = "returned"
                   /\ UNCHANGED <<auto_collection_triggered, auto_collection_query>>
    /\ searched' = Append(searched, query)
    /\ UNCHANGED <<store, storeUp, query, category_filter, top_k, exceptSession>>
    /\ UNCHANGED <<generationVars, entry>>

\* lines 425-426 and 433: the collect button reads True
ClickCollect ==
    /\ epc = "buttons"
    /\ auto_collection_triggered' = <<TRUE>>
    /\ epc' = "generate"
    /\ UNCHANGED <<store, storeUp, query, category_filter, top_k, exceptSession>>
    /\ UNCHANGED <<auto_collection_query, generationVars, initial_results,
                   qa_results, searched, entry>>

\* lines 429-430: the refresh button reads True and st.rerun() ends the run
ClickRefresh ==
    /\ epc = "buttons"
    /\ epc' = "ended"
    /\ UNCHANGED <<store, storeUp, query, category_filter, top_k, exceptSession>>
    /\ UNCHANGED <<auto_collection_triggered, auto_collection_query, generationVars,
                   initial_results, qa_results, searched, entry>>

\* lines 433 and 462: neither button reads True; the flag decides
NoClick ==
    /\ epc = "buttons"
    /\ IF auto_collection_triggered = <<TRUE>>
       THEN epc' = "generate" /\ qa_results' = qa_results
       ELSE epc' = "returned" /\ qa_results' = initial_results
    /\ UNCHANGED <<store, storeUp, query, category_filter, top_k, exceptSession>>
    /\ UNCHANGED <<auto_collection_triggered, auto_collection_query, generationVars,
                   initial_results, searched, entry>>

\* lines 242-267 and 279: the raw_product_data insert answers with its row
InsertRaw ==
    /\ epc = "generate"
    /\ storeUp
    /\ raw_product_data' = Append(raw_product_data, Strip(query))
    /\ sample' = 1
    /\ qa_saved_count' = 0
    /\ epc' = "qa"
    /\ UNCHANGED <<store, storeUp, query, category_filter, top_k, exceptSession>>
    /\ UNCHANGED <<auto_collection_triggered, auto_collection_query, success,
                   inserted, initial_results, qa_results, searched, entry>>

\* lines 261-265 and 320-323: the insert answers without data, or raises
InsertRawFails ==
    /\ epc = "generate"
    /\ success' = <<FALSE>>
    /\ epc' = "generated"
    /\ UNCHANGED <<store, storeUp, query, category_filter, top_k, exceptSession>>
    /\ UNCHANGED <<auto_collection_triggered, auto_collection_query,
                   raw_product_data, sample, qa_saved_count, inserted,
                   initial_results, qa_results, searched, entry>>

AtSample == epc = "qa" /\ sample <= Len(QaSamples(Strip(query), EstimatedCategory(query)))

\* lines 280-300: one sample is inserted and counted
InsertQa ==
    /\ AtSample
    /\ storeUp
    /\ store' = Append(store, QaRow(store, query, sample))
    /\ qa_saved_count' = qa_saved_count + 1
    /\ inserted' = inserted + 1
    /\ sample' = sample + 1
    /\ UNCHANGED <<storeUp, query, category_filter, top_k, exceptSession>>
    /\ UNCHANGED <<auto_collection_triggered, auto_collection_query,
                   raw_product_data, success, epc, initial_results, qa_results,
                   searched, entry>>

\* lines 297-303: the insert answers without data, or raises and the loop
\* continues
InsertQaFails ==
    /\ AtSample
    /\ sample' = sample + 1
    /\ UNCHANGED <<store, storeUp, query, category_filter, top_k, exceptSession>>
    /\ UNCHANGED <<auto_collection_triggered, auto_collection_query,
                   raw_product_data, qa_saved_count, success, inserted, epc,
                   initial_results, qa_results, searched, entry>>

\* lines 313-318: the loop is over
FinishGeneration ==
    /\ epc = "qa"
    /\ ~AtSample
    /\ success' = <<Succeeded(qa_saved_count)>>
    /\ epc' = "generated"
    /\ UNCHANGED <<store, storeUp, query, category_filter, top_k, exceptSession>>
    /\ UNCHANGED <<auto_collection_triggered, auto_collection_query,
                   raw_product_data, sample, qa_saved_count, inserted,
                   initial_results, qa_results, searched, entry>>

\* lines 438-462: after a success the search is repeated; its result is
\* returned when there is one, the first result otherwise
FollowUpSearch ==
    /\ epc = "generated"
    /\ success = <<TRUE>>
    /\ LET new_results == SearchResult(store, storeUp, query, category_filter, top_k)
       IN  qa_results' = IF new_results # <<>> THEN new_results ELSE initial_results
    /\ auto_collection_triggered' = <<FlagAfterGeneration(auto_collection_triggered[1])>>
    /\ searched' = Append(searched, query)
    /\ epc' = "returned"
    /\ UNCHANGED <<store, storeUp, query, category_filter, top_k, exceptSession>>
    /\ UNCHANGED <<auto_collection_query, generationVars, initial_results, entry>>

\* lines 457-462: after a failure the first result is returned
GenerationFailed ==
    /\ epc = "generated"
    /\ success = <<FALSE>>
    /\ qa_results' = initial_results
    /\ auto_collection_triggered' = <<FlagAfterGeneration(auto_collection_triggered[1])>>
    /\ epc' = "returned"
    /\ UNCHANGED <<store, storeUp, query, category_filter, top_k, exceptSession>>
    /\ UNCHANGED <<auto_collection_query, generationVars, initial_results,
                   searched, entry>>

\* the store becomes unreachable, or reachable again, while the call runs
SessionFlip ==
    /\ epc \in {"search", "buttons", "generate", "qa", "generated"}
    /\ storeUp' = ~storeUp
    /\ UNCHANGED <<store, query, category_filter, top_k, exceptSession>>
    /\ UNCHANGED <<auto_collection_triggered, auto_collection_query, generationVars,
                   epc, initial_results, qa_results, searched, entry>>

NextSession ==
    \/ RejectQuery
    \/ EnterSearch
    \/ InitialSearch
    \/ ClickCollect
    \/ ClickRefresh
    \/ NoClick
    \/ InsertRaw
    \/ InsertRawFails
    \/ InsertQa
    \/ InsertQaFails
    \/ FinishGeneration
    \/ FollowUpSearch
    \/ GenerationFailed
    \/ SessionFlip

SpecSession == InitSession /\ [][NextSession]_vars

(***************************************************************************)
(* process_product_batch of src/batch_processor.py, with the simulated     *)
(* collection and QA generation it calls.  The raw_product_data insert of  *)
(* simulate_data_collection answers with its row, answers without data or  *)
(* raises.  simulate_qa_generation returns a list, which may be empty, or  *)
(* raises.                                                                  *)
(***************************************************************************)
\* most products of one batch
MaxBatch == 3

\* line 87: the least total_source_count that is enough
MinSources == 5

\* lines 180 and 190: total_source_count of a simulated collection
SimulatedSources == 15

BatchProductNames == {"p", "q"}

\* the (product_name, category_id) tuples of a batch
ProductTuples == {<<name, 1>> : name \in BatchProductNames}

Batches == UNION {[1..n -> ProductTuples] : n \in 0..MaxBatch}

\* lines 186-192: the record of a collection that was stored as row id
Collected(name, catId, id) ==
    [product_name |-> name, category_id |-> catId, raw_data_id |-> id,
     total_source_count |-> SimulatedSources]

\* the collection result is never tested
SufficientAlways(raw) == TRUE

\* line 87: not (not raw_data or raw_data.get('total_source_count', 0) < 5)
Sufficient(raw) == raw # <<>> /\ raw[1].total_source_count >= MinSources

\* a product is recorded without being counted
CountNothing(r) == r

\* lines 89, 108, 133: results["failed"] += 1
CountFailed(r) == [r EXCEPT !.failed = @ + 1]

\* line 119: results["successful"] += 1
CountSuccessful(r) == [r EXCEPT !.successful = @ + 1]

\* lines 90-94, 109-113, 120-126, 134-138: results["details"].append(...)
Detail(r, name, status, reason) ==
    [r EXCEPT !.details = Append(@, [product |-> name, status |-> status,
                                     reason |-> reason])]

InitBatch ==
    /\ SearchIdle
    /\ storeUp = TRUE
    /\ RecommendIdle
    /\ IngestIdle
    /\ SessionIdle
    /\ BatchIdle
    /\ SaveIdle
    /\ ParseIdle

\* lines 49-58
BeginBatch ==
    /\ bpc = "idle"
    /\ \E b \in Batches : products' = b
    /\ batch_results' = <<[total_products |-> Len(products'), successful |-> 0,
                           failed |-> 0, details |-> <<>>]>>
    /\ product_index' = 1
    /\ bpc' = "loop"
    /\ UNCHANGED <<raw_data, collected, qa_invoked, raw_product_data, exceptBatch>>

AtProduct(at) == bpc = at /\ product_index <= Len(products)

\* lines 85 and 171-192: the insert answers with its row
CollectData ==
    /\ AtProduct("loop")
    /\ raw_product_data' = Append(raw_product_data, products[product_index][1])
    /\ raw_data' = <<Collected(products[product_index][1], products[product_index][2],
                               Len(raw_product_data'))>>
    /\ collected' = Append(collected, raw_data')
    /\ bpc' = "collected"
    /\ UNCHANGED <<products, product_index, batch_results, qa_invoked, exceptBatch>>

\* lines 85 and 193-198: the insert answers without data, or raises
CollectNothing ==
    /\ AtProduct("loop")
    /\ raw_data' = <<>>
    /\ collected' = Append(collected, raw_data')
    /\ bpc' = "collected"
    /\ UNCHANGED <<products, product_index, batch_results, qa_invoked,
                   raw_product_data, exceptBatch>>

\* lines 87-95: the collection failed or is not enough
RecordInsufficient ==
    /\ AtProduct("collected")
    /\ ~Sufficient(raw_data)
    /\ batch_results' = <<Detail(CountFailed(batch_results[1]),
                                 products[product_index][1], "failed", "collection")>>
    /\ product_index' = product_index + 1
    /\ bpc' = "loop"
    /\ UNCHANGED <<products, raw_data, collected, qa_invoked, raw_product_data,
                   exceptBatch>>

\* lines 104-126: QA generation returns a list that is not empty
RecordSuccess ==
    /\ AtProduct("collected")
    /\ Sufficient(raw_data)
    /\ qa_invoked' = Append(qa_invoked, product_index)
    /\ batch_results' = <<Detail(CountSuccessful(batch_results[1]),
                                 products[product_index][1], "success", "")>>
    /\ product_index' = product_index + 1
    /\ bpc' = "loop"
    /\ UNCHANGED <<products, raw_data, collected, raw_product_data, exceptBatch>>

\* lines 104-114: QA generation returns an empty list
RecordNoQa ==
    /\ AtProduct("collected")
    /\ Sufficient(raw_data)
    /\ qa_invoked' = Append(qa_invoked, product_index)
    /\ batch_results' = <<Detail(CountFailed(batch_results[1]),
                                 products[product_index][1], "failed", "qa")>>
    /\ product_index' = product_index + 1
    /\ bpc' = "loop"
    /\ UNCHANGED <<products, raw_data, collected, raw_product_data, exceptBatch>>

\* lines 104 and 131-139: QA generation raises
RecordError ==
    /\ AtProduct("collected")
    /\ Sufficient(raw_data)
    /\ qa_invoked' = Append(qa_invoked, product_index)
    /\ batch_results' = <<Detail(CountFailed(batch_results[1]),
                                 products[product_index][1], "error", "raised")>>
    /\ product_index' = product_index + 1
    /\ bpc' = "loop"
    /\ UNCHANGED <<products, raw_data, collected, raw_product_data, exceptBatch>>

\* lines 141-142
ReturnBatch ==
    /\ bpc = "loop"
    /\ product_index > Len(products)
    /\ bpc' = "returned"
    /\ UNCHANGED <<products, product_index, batch_results, raw_data, collected,
                   qa_invoked, raw_product_data, exceptBatch>>

NextBatch ==
    \/ BeginBatch
    \/ CollectData
    \/ CollectNothing
    \/ RecordInsufficient
    \/ RecordSuccess
    \/ RecordNoQa
    \/ RecordError
    \/ ReturnBatch

SpecBatch == InitBatch /\ [][NextBatch]_vars

(***************************************************************************)
(* save_to_database of src/streamlit_app.py, one call after the other,     *)
(* each followed by the test of its caller (lines 361-362).  A request to  *)
(* the store answers or raises; an insert that raises stores nothing.      *)
(***************************************************************************)
\* most calls of save_to_database
MaxSaves == 3

SaveUrls == {"u1", "u2"}

\* the processed records handed to save_to_database
SaveRecords == {[url |-> u, source_type |-> Sources[n]] : u \in SaveUrls, n \in 1..Len(Sources)}

\* the table of each source, lines 485-490
SpecificTable(source) ==
    CASE source = "shopping" -> "products"
      [] source = "blog" -> "blog_posts"
      [] source = "news" -> "news_articles"

\* the exception of the source-specific insert reaches save_to_database
ReturnUnlessRaised(raised) == ~raised

\* lines 492, 515-516, 530-531, 547-548: save_product_data, save_blog_data
\* and save_news_data catch what their insert raises
ReturnAfterSpecific(raised) == TRUE

InitSave ==
    /\ SearchIdle
    /\ storeUp = TRUE
    /\ RecommendIdle
    /\ routine = "none"
    /\ feed = <<>>
    /\ si = 1
    /\ ii = 1
    /\ collected_data = [s \in {Sources[n] : n \in 1..Len(Sources)} |-> <<>>]
    /\ saved_count = 0
    /\ results = [s \in {Sources[n] : n \in 1..Len(Sources)} |-> 0]
    /\ documents \in {<<>>, <<[id |-> 1, url |-> "u1", source_type |-> "blog"]>>}
    /\ processed_items = <<>>
    /\ all_items = <<>>
    /\ ipc = "idle"
    /\ SessionIdle
    /\ BatchIdle
    /\ SaveIdle
    /\ ParseIdle

\* line 361: save_to_database(processed_data) is called
CallSave ==
    /\ spc = "idle"
    /\ save_calls < MaxSaves
    /\ \E record \in SaveRecords : processed_data' = <<record>>
    /\ before' = <<[documents |-> documents, specific_rows |-> specific_rows,
                    saved_count |-> saved_count]>>
    /\ save_calls' = save_calls + 1
    /\ save_ret' = <<>>
    /\ specific_raised' = FALSE
    /\ spc' = "select"
    /\ UNCHANGED <<documents, saved_count, specific_rows, exceptSave>>

\* lines 459-462: a document of the url exists
SelectFinds ==
    /\ spc = "select"
    /\ Existing(documents, processed_data[1].url) # <<>>
    /\ save_ret' = <<FALSE>>
    /\ spc' = "returned"
    /\ UNCHANGED <<documents, saved_count, processed_data, specific_rows,
                   specific_raised, save_calls, before, exceptSave>>

\* lines 459-479: no document of the url exists
SelectFindsNothing ==
    /\ spc = "select"
    /\ Existing(documents, processed_data[1].url) = <<>>
    /\ spc' = "insert"
    /\ UNCHANGED <<documents, saved_count, processed_data, save_ret, specific_rows,
                   specific_raised, save_calls, before, exceptSave>>

\* lines 459 and 494-496: the select raises
SelectRaises ==
    /\ spc = "select"
    /\ save_ret' = <<FALSE>>
    /\ spc' = "returned"
    /\ UNCHANGED <<documents, saved_count, processed_data, specific_rows,
                   specific_raised, save_calls, before, exceptSave>>

\* lines 481-482: the documents row is stored
InsertDocument ==
    /\ spc = "insert"
    /\ documents' = Append(documents, DocumentRow(documents, processed_data[1]))
    /\ spc' = "specific"
    /\ UNCHANGED <<saved_count, processed_data, save_ret, specific_rows,
                   specific_raised, save_calls, before, exceptSave>>

\* lines 481 and 494-496: the documents insert raises
InsertDocumentRaises ==
    /\ spc = "insert"
    /\ save_ret' = <<FALSE>>
    /\ spc' = "returned"
    /\ UNCHANGED <<documents, saved_count, processed_data, specific_rows,
                   specific_raised, save_calls, before, exceptSave>>

\* lines 485-492: the row of the source's own table is stored
SaveSpecific ==
    /\ spc = "specific"
    /\ specific_rows' = Append(specific_rows,
                               [table |-> SpecificTable(processed_data[1].source_type),
                                document_id |-> documents[Len(documents)].id])
    /\ save_ret' = <<ReturnAfterSpecific(FALSE)>>
    /\ spc' = "returned"
    /\ UNCHANGED <<documents, saved_count, processed_data, specific_raised,
                   save_calls, before, exceptSave>>

\* lines 485-492 and 514-516, 529-531, 546-548: the insert into the source's
\* own table raises
SaveSpecificRaises ==
    /\ spc = "specific"
    /\ specific_raised' = TRUE
    /\ save_ret' = <<ReturnAfterSpecific(TRUE)>>
    /\ spc' = "returned"
    /\ UNCHANGED <<documents, saved_count, processed_data, specific_rows,
                   save_calls, before, exceptSave>>

\* lines 361-362: if save_to_database(processed_data): saved_count += 1
CountSaved ==
    /\ spc = "returned"
    /\ saved_count' = IF save_ret[1] THEN saved_count + 1 ELSE saved_count
    /\ spc' = "idle"
    /\ UNCHANGED <<documents, processed_data, save_ret, specific_rows,
                   specific_raised, save_calls, before, exceptSave>>

NextSave ==
    \/ CallSave
    \/ SelectFinds
    \/ SelectFindsNothing
    \/ SelectRaises
    \/ InsertDocument
    \/ InsertDocumentRaises
    \/ SaveSpecific
    \/ SaveSpecificRaises
    \/ CountSaved

SpecSave == InitSave /\ [][NextSave]_vars

(***************************************************************************)
(* parse_ai_recommendation of src/streamlit_app.py.  The response is the   *)
(* sequence of its lines (line 239).  The Korean words the parser looks    *)
(* for are one letter each here.  A dict is a record of optional fields:   *)
(* an absent key is the empty sequence, a present one a sequence of its    *)
(* value.                                                                  *)
(***************************************************************************)
\* most lines of a response
MaxLines == 4

\* '설치 간편성', line 248
InstallationWord == <<"I">>
\* '보안성', line 250
SecurityWord == <<"S">>
\* '가격:' and '평점', line 267
PriceWord == <<"P", ":">>
RatingWord == <<"R">>
\* '블로그', line 269
BlogWord == <<"G">>
\* '뉴스:', line 272
NewsWord == <<"N", ":">>
\* '난이도:' and '보안성:', line 275
DifficultyWord == <<"D", ":">>
SecurityScoreWord == SecurityWord \o <<":">>
\* '별점:', line 277
StarWord == <<"T", ":">>
\* the default star_rating, line 265
DefaultStars == <<"*">>

\* the heading lines of the prompt's format, lines 193 and 206
InstallationHeading == InstallationWord \o <<":">>
SecurityHeading == SecurityWord \o <<":">>

\* the lines a response is made of: the two headings, two numbered products,
\* a price line, a blog line and a blank line
ResponseLines ==
    { InstallationHeading, SecurityHeading,
      <<"1", ".", " ", "A">>, <<"2", ".", "B">>,
      <<" ", "-", " ", "P", ":", "9">>,
      <<" ", "-", " ", "G", ":", " ", "\"", "q", "\"">>,
      <<" ">> }

Responses == UNION {[1..n -> ResponseLines] : n \in 0..MaxLines}

\* str.startswith
StartsWith(text, prefix) ==
    Len(text) >= Len(prefix) /\ SubSeq(text, 1, Len(prefix)) = prefix

\* line.split(c, 1)[1], when there is one
RECURSIVE AfterFirst(_, _)
AfterFirst(text, c) ==
    IF text = <<>> THEN <<>>
    ELSE IF Head(text) = c THEN <<Tail(text)>>
    ELSE AfterFirst(Tail(text), c)

\* line 252: line.startswith(('1.', '2.', '3.'))
IsNumbered(line) ==
    \E d \in {"1", "2", "3"} : StartsWith(line, <<d, ".">>)

\* lines 248-277: the branch a stripped line takes
Branch(line) ==
    IF Contains(line, InstallationWord) THEN "installation"
    ELSE IF Contains(line, SecurityWord) THEN "security"
    ELSE IF IsNumbered(line) THEN "product"
    ELSE IF Contains(line, PriceWord) \/ Contains(line, RatingWord) THEN "price"
    ELSE IF Contains(line, BlogWord) THEN "blog"
    ELSE IF Contains(line, NewsWord) THEN "news"
    ELSE IF Contains(line, DifficultyWord) \/ Contains(line, SecurityScoreWord)
         THEN "score"
    ELSE IF Contains(line, StarWord) THEN "star"
    ELSE "other"

\* line 241: {}
EmptyProduct ==
    [product_name |-> <<>>, price_info |-> <<>>, blog_quotes |-> <<>>,
     news_highlights |-> <<>>, score_display |-> <<>>, star_rating |-> <<>>]

\* lines 257-266
NewProduct(line) ==
    [product_name |-> <<Strip(AfterFirst(line, ".")[1])>>, price_info |-> << <<>> >>,
     blog_quotes |-> << <<>> >>, news_highlights |-> << <<>> >>,
     score_display |-> << <<>> >>, star_rating |-> <<DefaultStars>>]

\* lines 268 and 276: line.replace('-', '').strip()
WithoutDash(line) == Strip(Replace(line, <<"-">>, <<>>))

\* lines 270 and 273: line.split(':', 1)[1].strip().replace('"', '')
Quoted(line) == Replace(Strip(AfterFirst(line, ":")[1]), <<"\"">>, <<>>)

\* lines 270-274: the line has no ':' to split at, or current_product has no
\* list to append to
LineRaises(line, product) ==
    \/ /\ Branch(line) = "blog"
       /\ (AfterFirst(line, ":") = <<>> \/ product.blog_quotes = <<>>)
    \/ /\ Branch(line) = "news"
       /\ (AfterFirst(line, ":") = <<>> \/ product.news_highlights = <<>>)

\* lines 267-278: current_product after a detail line
WithDetail(product, line) ==
    CASE Branch(line) = "price" -> [product EXCEPT !.price_info = <<WithoutDash(line)>>]
      [] Branch(line) = "blog" ->
            [product EXCEPT !.blog_quotes = <<Append(@[1], Quoted(line))>>]
      [] Branch(line) = "news" ->
            [product EXCEPT !.news_highlights = <<Append(@[1], Quoted(line))>>]
      [] Branch(line) = "score" -> [product EXCEPT !.score_display = <<WithoutDash(line)>>]
      [] Branch(line) = "star" ->
            [product EXCEPT !.star_rating = <<Strip(AfterFirst(line, ":")[1])>>]
      [] OTHER -> product

\* lines 254-255, 281-282: if current_product and current_category
Filing(product, category) == product # EmptyProduct /\ category # None

InitParse ==
    /\ SearchIdle
    /\ storeUp = TRUE
    /\ RecommendIdle
    /\ IngestIdle
    /\ SessionIdle
    /\ BatchIdle
    /\ SaveIdle
    /\ ai_response \in Responses
    /\ line_index = 1
    /\ current_category = None
    /\ current_product = EmptyProduct
    /\ recommendations = [installation_ease |-> <<>>, security |-> <<>>]
    /\ fallback = FALSE
    /\ numbered_at = 0
    /\ filed = <<>>
    /\ ppc = "start"

\* lines 235-236: if not ai_response
ParseNothing ==
    /\ ppc = "start"
    /\ ai_response = <<>>
    /\ fallback' = TRUE
    /\ ppc' = "done"
    /\ UNCHANGED <<ai_response, line_index, current_category, current_product,
                   recommendations, numbered_at, filed, exceptParse>>

\* lines 238-241
BeginParse ==
    /\ ppc = "start"
    /\ ai_response # <<>>
    /\ ppc' = "loop"
    /\ UNCHANGED <<ai_response, line_index, current_category, current_product,
                   recommendations, fallback, numbered_at, filed, exceptParse>>

AtLine == ppc = "loop" /\ line_index <= Len(ai_response)

\* lines 243-278: one line of the response
ParseLine ==
    /\ AtLine
    /\ LET line == Strip(ai_response[line_index])
       IN  /\ ~(line # <<>> /\ LineRaises(line, current_product))
           /\ IF line = <<>>
              THEN UNCHANGED <<current_category, current_product, recommendations,
                               numbered_at, filed>>
              ELSE IF Branch(line) = "installation"
              THEN /\ current_category' = "installation_ease"
                   /\ UNCHANGED <<current_product, recommendations, numbered_at, filed>>
              ELSE IF Branch(line) = "security"
              THEN /\ current_category' = "security"
                   /\ UNCHANGED <<current_product, recommendations, numbered_at, filed>>
              ELSE IF Branch(line) = "product"
              THEN /\ IF Filing(current_product, current_category)
                      THEN /\ recommendations' =
                                [recommendations EXCEPT ![current_category] =
                                    Append(@, current_product)]
                           /\ filed' = Append(filed, [line |-> numbered_at,
                                                      category |-> current_category])
                      ELSE UNCHANGED <<recommendations, filed>>
                   /\ current_product' = NewProduct(line)
                   /\ numbered_at' = line_index
                   /\ UNCHANGED current_category
              ELSE /\ current_product' = WithDetail(current_product, line)
                   /\ UNCHANGED <<current_category, recommendations, numbered_at, filed>>
    /\ line_index' = line_index + 1
    /\ UNCHANGED <<ai_response, fallback, ppc, exceptParse>>

\* lines 284-286: a line raises and the fallback data is returned
ParseLineRaises ==
    /\ AtLine
    /\ LET line == Strip(ai_response[line_index])
       IN  line # <<>> /\ LineRaises(line, current_product)
    /\ fallback' = TRUE
    /\ ppc' = "done"
    /\ UNCHANGED <<ai_response, line_index, current_category, current_product,
                   recommendations, numbered_at, filed, exceptParse>>

\* lines 280-288: the last product is filed and recommendations returned
FinishParse ==
    /\ ppc = "loop"
    /\ ~AtLine
    /\ IF Filing(current_product, current_category)
       THEN /\ recommendations' =
                 [recommendations EXCEPT ![current_category] =
                     Append(@, current_product)]
            /\ filed' = Append(filed, [line |-> numbered_at,
                                       category |-> current_category])
       ELSE UNCHANGED <<recommendations, filed>>
    /\ ppc' = "done"
    /\ UNCHANGED <<ai_response, line_index, current_category, current_product,
                   fallback, numbered_at, exceptParse>>

NextParse ==
    \/ ParseNothing
    \/ BeginParse
    \/ ParseLine
    \/ ParseLineRaises
    \/ FinishParse

SpecParse == InitParse /\ [][NextParse]_vars

(***************************************************************************)
(* Properties.                                                             *)
(***************************************************************************)
Range(f) == {f[n] : n \in DOMAIN f}

\* the words of a query that are longer than one character
LongWords(q) == SelectSeq(Split(q), LAMBDA w : Len(w) > 1)

\* w occurs in text as a substring, case ignored
Occurs(w, text) == Contains(Lower(text), Lower(w))

\* w occurs in one of the three searched fields of a row
OccursInRow(w, row) ==
    \/ Occurs(w, row.question)
    \/ Occurs(w, row.answer)
    \/ Occurs(w, row.product_name)

\* a category filter that names no category
Unresolvable(c) ==
    /\ c \notin {None, AllCategories}
    /\ \A n \in DOMAIN product_categories : product_categories[n].category_name # c

\* the previous call returned, and the store did not change during it or
\* during the current call
AfterPrevious ==
    /\ pc = "done"
    /\ prev.ret.status = "returned"
    /\ ~flipped
    /\ ~prev.flipped

\* C1: a call returns a sequence of at most top_k records.
C1_AtMostTopK == pc = "done" => Len(ret.value) <= top_k

\* C1 witness: more candidates than top_k were gathered, top_k are returned.
C1_Truncated ==
    /\ pc = "done"
    /\ Len(Dedupe(all_results, {})) > top_k
    /\ Len(ret.value) = top_k

\* C2: the relevance_score of every returned record is the number of DISTINCT
\* query words longer than one character that occur, case ignored, in
\* question + " " + answer + " " + product_name.
C2_CountsDistinctTokens ==
    pc = "done" =>
        \A n \in 1..Len(ret.value) :
            ret.value[n].relevance_score =
                Cardinality({w \in Range(LongWords(query)) :
                    Occurs(w, ret.value[n].question \o <<" ">> \o ret.value[n].answer
                              \o <<" ">> \o ret.value[n].product_name)})

\* C3: the returned sequence is in descending order of the pair
\* (relevance_score, confidence_score): each record's pair is at least the
\* pair of the record after it.
C3_SortedDescending ==
    pc = "done" =>
        \A n \in 1..(Len(ret.value) - 1) :
            \/ ret.value[n].relevance_score > ret.value[n + 1].relevance_score
            \/ /\ ret.value[n].relevance_score = ret.value[n + 1].relevance_score
               /\ ret.value[n].confidence_score >= ret.value[n + 1].confidence_score

\* C3 witness: two records are returned in the reverse of the order in which
\* the store holds them, the confidence_score deciding.
C3_Reordered ==
    /\ pc = "done"
    /\ Len(ret.value) = 2
    /\ ret.value[1].id > ret.value[2].id
    /\ ret.value[1].relevance_score = ret.value[2].relevance_score
    /\ ret.value[1].confidence_score > ret.value[2].confidence_score

\* C4: when every store request answered, the candidates are exactly the rows
\* in which some query word longer than one character occurs as a substring of
\* question, answer or product_name, whose confidence_score is at least 0.5 and
\* whose category is the resolved filter when there is one; when there are at
\* most top_k of them, exactly these rows are returned.
C4_CandidatesAreSubstringMatches ==
    (pc = "done" /\ ~sawError) =>
        LET wanted == BaseCategory(CategoryRows(category_filter))
            cand == {row \in Range(store) :
                        /\ \E w \in Range(LongWords(query)) : OccursInRow(w, row)
                        /\ row.confidence_score >= MinConfidence
                        /\ (wanted # NoCategory => row.category_id = wanted)}
        IN  /\ Range(all_results) = cand
            /\ Cardinality(cand) <= top_k =>
                   {ret.value[n].id : n \in DOMAIN ret.value} = {row.id : row \in cand}

\* C5: when a store request raised, the call ends in a failure the caller can
\* tell from a successful result; it does not return a sequence.
C5_StoreFailureSurfaces == (pc = "done" /\ sawError) => ret.status = "raised"

\* C6: when no query word longer than one character occurs in the question,
\* answer or product_name of any stored row, the call returns the empty
\* sequence.
C6_NoOccurrenceIsEmpty ==
    (pc = "done"
        /\ \A row \in Range(store) : \A w \in Range(LongWords(query)) :
               ~OccursInRow(w, row))
    => ret.value = <<>>

\* C7: every returned record has a relevance_score of at least 1.
C7_NoZeroScore ==
    pc = "done" => \A n \in 1..Len(ret.value) : ret.value[n].relevance_score >= 1

\* C8: two consecutive calls with the same query, category_filter and top_k
\* against an unchanged store return the same sequence: the same records with
\* the same relevance_score in the same order.
C8_Idempotent ==
    (AfterPrevious
        /\ prev.query = query
        /\ prev.category_filter = category_filter
        /\ prev.top_k = top_k)
    => ret = prev.ret

\* C8 witness: a rerun with the same arguments has returned two records.
C8_RerunReturnedTwo ==
    /\ AfterPrevious
    /\ prev.query = query
    /\ prev.category_filter = category_filter
    /\ prev.top_k = top_k
    /\ Len(ret.value) = 2

\* C9: two queries that differ only in words of at most one character give
\* the same sequence with the same relevance scores, the category filter,
\* top_k and the store being the same.
C9_ShortWordsIgnored ==
    (AfterPrevious
        /\ prev.query # query
        /\ LongWords(prev.query) = LongWords(query)
        /\ prev.category_filter = category_filter
        /\ prev.top_k = top_k)
    => ret = prev.ret

\* C9 witness: the query of a call that returned a record was rerun with a
\* one-character word added that occurs in a stored row.
C9_ShortWordAdded ==
    /\ AfterPrevious
    /\ prev.query # query
    /\ Len(Split(query)) > Len(Split(prev.query))
    /\ LongWords(prev.query) = LongWords(query)
    /\ prev.category_filter = category_filter
    /\ \E row \in Range(store) : \E w \in Range(Split(query)) :
           Len(w) = 1 /\ OccursInRow(w, row)
    /\ ret.value # <<>>

\* C10: a category filter that names no category is dropped: the call returns
\* what the call with the same query and top_k and no category filter returns,
\* and it returns rather than raises.
C10_UnresolvableFilterDropped ==
    (AfterPrevious
        /\ prev.query = query
        /\ prev.top_k = top_k
        /\ \/ Unresolvable(category_filter) /\ prev.category_filter = None
           \/ Unresolvable(prev.category_filter) /\ category_filter = None)
    => (ret = prev.ret /\ ret.status = "returned")

\* C10 witness: a call with a filter that names no category has returned a
\* record after the call without filter did.
C10_UnknownCategoryReturned ==
    /\ AfterPrevious
    /\ prev.query = query
    /\ Unresolvable(category_filter)
    /\ prev.category_filter = None
    /\ ret.value # <<>>

\* position of the first row of an id among the rows received
FirstReceived(id) == CHOOSE n \in 1..Len(all_results) :
    /\ all_results[n].id = id
    /\ \A m \in 1..(n - 1) : all_results[m].id # id

\* C11: no two records of the returned sequence have the same id, also when a
\* row was received for several keywords.
C11_DistinctIds ==
    pc = "done" =>
        \A n, m \in 1..Len(ret.value) : n # m => ret.value[n].id # ret.value[m].id

\* C11 witness: a row was received twice and two records are returned.
C11_ReceivedTwice ==
    /\ pc = "done"
    /\ \E n, m \in 1..Len(all_results) : n # m /\ all_results[n].id = all_results[m].id
    /\ Len(ret.value) = 2

\* C12: no step of a call changes the rows of table product_qa, whether the
\* call succeeds, finds nothing or fails.
C12_StoreUnchanged == [][store' = store]_vars

\* C12 witness: a call has scored and returned a row of the table.
C12_ScoredRowReturned ==
    /\ pc = "done"
    /\ Len(ret.value) >= 1
    /\ ret.value[1].relevance_score >= 1

\* C13: returned records of equal (relevance_score, confidence_score) are in
\* the order in which they were first received from the store.
C13_TiesInReceivedOrder ==
    pc = "done" =>
        \A n, m \in 1..Len(ret.value) :
            (/\ n < m
             /\ ret.value[n].relevance_score = ret.value[m].relevance_score
             /\ ret.value[n].confidence_score = ret.value[m].confidence_score)
            => FirstReceived(ret.value[n].id) < FirstReceived(ret.value[m].id)

\* C13 witness: two records of equal key are returned.
C13_TieReturned ==
    /\ pc = "done"
    /\ Len(ret.value) = 2
    /\ ret.value[1].relevance_score = ret.value[2].relevance_score
    /\ ret.value[1].confidence_score = ret.value[2].confidence_score

\* C17 as stated: a call issues at most 3 x (number of query words longer
\* than one character) store reads.
C17_AtMostThreePerToken == reads <= 3 * Len(LongWords(query))

\* C17 amended: a call issues at most one read per query word longer than one
\* character, and one more, the category lookup, when a category filter other
\* than None and the "all" entry is given.
C17_ReadsBounded ==
    reads <= Len(LongWords(query))
             + (IF category_filter \notin {None, AllCategories} THEN 1 ELSE 0)

\* C17 witness: a call with a category filter and two keywords has issued
\* three reads.
C17_LookupAndTwoKeywords ==
    /\ pc = "done"
    /\ category_filter \notin {None, AllCategories}
    /\ Len(LongWords(query)) = 2
    /\ reads = 3

\* the records of qa_list of one product, in input order
RecordsOf(name) == SelectSeq(qa_list, LAMBDA qa : qa.product_name = name)

RECURSIVE SumConfidence(_)
SumConfidence(rows) ==
    IF rows = <<>> THEN 0 ELSE Head(rows).confidence_score + SumConfidence(Tail(rows))

RECURSIVE SumCount(_)
SumCount(groups) == IF groups = <<>> THEN 0 ELSE Head(groups).count + SumCount(Tail(groups))

\* the groups create_direct_recommendation returned
Groups == recommendation.products_info

\* C14: the best_qa of every returned group is a record of that group, and no
\* record of the group has a higher relevance_score.
C14_BestIsMaximal ==
    (rpc = "done" /\ recommendation.status = "ok") =>
        \A n \in 1..Len(Groups) :
            /\ Groups[n].best_qa \in Range(RecordsOf(Groups[n].product_name))
            /\ \A qa \in Range(RecordsOf(Groups[n].product_name)) :
                   qa.relevance_score <= Groups[n].best_qa.relevance_score

\* C14 witness: a returned group has records of different relevance_score.
C14_GroupOfUnequalRecords ==
    /\ rpc = "done"
    /\ recommendation.status = "ok"
    /\ \E n \in 1..Len(Groups) :
           \E qa \in Range(RecordsOf(Groups[n].product_name)) :
               qa.relevance_score < Groups[n].best_qa.relevance_score

\* C15: the avg_confidence of a returned group is the mean confidence_score of
\* its records, and of two adjacent groups the first has the higher
\* best_qa.relevance_score, or the same and a mean that is not lower.
C15_GroupsDescending ==
    (rpc = "done" /\ recommendation.status = "ok") =>
        /\ \A n \in 1..Len(Groups) :
               LET rows == RecordsOf(Groups[n].product_name)
               IN  Groups[n].avg_confidence.total * Len(rows)
                       = SumConfidence(rows) * Groups[n].avg_confidence.count
        /\ \A n \in 1..(Len(Groups) - 1) :
               LET g == Groups[n]
                   h == Groups[n + 1]
                   gRows == RecordsOf(g.product_name)
                   hRows == RecordsOf(h.product_name)
               IN  \/ g.best_qa.relevance_score > h.best_qa.relevance_score
                   \/ /\ g.best_qa.relevance_score = h.best_qa.relevance_score
                      /\ SumConfidence(gRows) * Len(hRows)
                             >= SumConfidence(hRows) * Len(gRows)

\* C15 witness: two groups of equal best relevance_score are returned in the
\* reverse of the order in which they were created.
C15_GroupsSwappedOnAverage ==
    /\ rpc = "done"
    /\ Len(Groups) = 2
    /\ Groups[1].product_name = products_info[2].product_name
    /\ Groups[1].best_qa.relevance_score = Groups[2].best_qa.relevance_score

\* C16: every record of qa_list is in the group of its product_name and in no
\* other, the counts of the groups add up to total_found, which is the length
\* of qa_list, and total_products is the number of distinct product names.
C16_Partition ==
    (rpc = "done" /\ recommendation.status = "ok") =>
        /\ \A n \in 1..Len(qa_list) :
               \E m \in 1..Len(Groups) : Groups[m].product_name = qa_list[n].product_name
        /\ \A n, m \in 1..Len(Groups) :
               n # m => Groups[n].product_name # Groups[m].product_name
        /\ \A n \in 1..Len(Groups) :
               LET rows == RecordsOf(Groups[n].product_name)
               IN  /\ Groups[n].count = Len(rows)
                   /\ Groups[n].answers = [k \in 1..Len(rows) |-> Answer(rows[k])]
        /\ SumCount(Groups) = recommendation.total_found
        /\ recommendation.total_found = Len(qa_list)
        /\ recommendation.total_products
               = Cardinality({qa_list[n].product_name : n \in 1..Len(qa_list)})

\* C16 witness: three records of two products were grouped.
C16_ThreeRecordsTwoProducts ==
    /\ rpc = "done"
    /\ recommendation.total_found = 3
    /\ recommendation.total_products = 2

\* the items of a source the normalizer does not raise for, in their order
Kept(source, items) == SelectSeq(items, LAMBDA item : ~Raises(source, item))

\* the processed_item of every item of every keyword that can be built
RECURSIVE CollectedFrom(_)
CollectedFrom(feeds) ==
    IF feeds = <<>> THEN <<>>
    ELSE LET kept == SelectSeq(Head(feeds), LAMBDA item : ~PriceRaises(item))
         IN  [k \in 1..Len(kept) |-> CollectedItem(kept[k])] \o CollectedFrom(Tail(feeds))

\* C18: when an ingestion routine has returned, every item whose processing
\* raised nothing was processed and collected, in the order of the items, for
\* every source and every search keyword, whatever items raised before it;
\* and with a reachable store the document of every collected record is saved.
C18_SiblingsProcessed ==
    ipc = "done" =>
        /\ routine = "process_and_save_data" =>
             /\ \A n \in 1..Len(Sources) :
                    LET kept == Kept(Sources[n], feed[n])
                    IN  /\ collected_data[Sources[n]]
                              = [k \in 1..Len(kept) |-> Process(Sources[n], kept[k])]
                        /\ storeUp =>
                              \A k \in 1..Len(kept) :
                                  Process(Sources[n], kept[k]).url \in Urls(documents)
                        /\ results[Sources[n]] <= Len(kept)
        /\ routine = "collect_shopping_data" => all_items = CollectedFrom(feed)

\* C18 witness: the first shopping item raised, its sibling and the items of
\* the later sources were processed.
C18_SkippedThenProcessed ==
    /\ ipc = "done"
    /\ routine = "process_and_save_data"
    /\ Len(feed[1]) = 2
    /\ PriceRaises(feed[1][1])
    /\ Len(collected_data["shopping"]) = 1
    /\ Len(collected_data["blog"]) >= 1
    /\ Len(collected_data["news"]) >= 1

\* no whitespace at either end and no two whitespace characters in a row
Tidy(text) ==
    /\ Strip(text) = text
    /\ \A n \in 1..(Len(text) - 1) : ~(IsSpace(text[n]) /\ IsSpace(text[n + 1]))

\* C19: the title and the description of every record the normalizer has
\* produced have no run of two or more whitespace characters and no leading
\* or trailing whitespace.
C19_CleanedTextIsTidy ==
    /\ \A n \in 1..Len(Sources) :
           \A k \in 1..Len(collected_data[Sources[n]]) :
               LET record == collected_data[Sources[n]][k]
               IN  /\ Tidy(record.title)
                   /\ Tidy(record.content.title)
                   /\ Tidy(record.content.description)
    /\ \A k \in 1..Len(processed_items) :
           Tidy(processed_items[k].title) /\ Tidy(processed_items[k].description)

\* the date field of the item is present and strptime does not parse it
DateUnparsable(source, item) ==
    CASE source = "blog" -> item.postdate # <<>> /\ ParsePostdate(item.postdate) = <<>>
      [] source = "news" -> item.pubDate # <<>> /\ ParsePubDate(item.pubDate[1]) = <<>>
      [] OTHER -> FALSE

\* C20: the step over a blog or news item whose date is present and does not
\* parse collects a record of that item with pub_date None and with title,
\* content, url and source_type filled from the item.
C20_UnparsableDateLeftAbsent ==
    [][(AtItem("process_and_save_data") /\ DateUnparsable(Sources[si], feed[si][ii]))
        => LET source == Sources[si]
               item == feed[si][ii]
               after == collected_data'[source]
           IN  /\ Len(after) = Len(collected_data[source]) + 1
               /\ SubSeq(after, 1, Len(after) - 1) = collected_data[source]
               /\ after[Len(after)].pub_date = <<>>
               /\ after[Len(after)].title = StripTags(item.title)
               /\ after[Len(after)].content.description = StripTags(item.description)
               /\ after[Len(after)].url = item.link
               /\ after[Len(after)].source_type = source]_vars

\* C20 witness: a blog item and a news item of unparsable date were collected
\* with pub_date None.
C20_UnparsableDatesCollected ==
    /\ ipc = "done"
    /\ routine = "process_and_save_data"
    /\ \E n \in 1..Len(feed[2]) :
           /\ DateUnparsable("blog", feed[2][n])
           /\ collected_data["blog"][n].pub_date = <<>>
           /\ collected_data["blog"][n].url = feed[2][n].link
    /\ \E n \in 1..Len(feed[3]) :
           /\ DateUnparsable("news", feed[3][n])
           /\ collected_data["news"][n].pub_date = <<>>
           /\ collected_data["news"][n].url = feed[3][n].link

(***************************************************************************)
(* The script run of main.                                                 *)
(***************************************************************************)
\* the call of auto_collect_and_generate_qa_fixed has begun
GenerationRan == epc \in {"generate", "qa", "generated"} \/ success # <<>>

\* ids of the rows product_qa held when enhanced_text_based_search_qa began
OldIds == {entry[1].store[n].id : n \in 1..Len(entry[1].store)}

\* C21: in every run of main the search functions are only ever invoked with
\* a query that strip() does not empty; a query that strip() empties ends the
\* run with no search made.
C21_BlankQueryNeverSearched ==
    /\ \A n \in 1..Len(searched) : Strip(searched[n]) # <<>>
    /\ (epc # "idle" /\ Strip(query) = <<>>)
           => /\ epc = "ended"
              /\ searched = <<>>
              /\ entry = <<>>

\* C21 witness: a query of one blank was rejected, nothing was searched.
C21_BlankRejected ==
    /\ epc = "ended"
    /\ query = <<" ">>
    /\ searched = <<>>

\* C24: the generation runs only after an empty first search and with the
\* session flag set, and only it writes to product_qa; a first search that
\* found rows is returned as it is, with the table and both session keys as
\* they were when the call began.
C24_GenerationOnlyWhenEmptyAndTriggered ==
    /\ (GenerationRan /\ epc # "returned")
           => initial_results = <<>> /\ auto_collection_triggered = <<TRUE>>
    /\ GenerationRan => initial_results = <<>>
    /\ (entry # <<>> /\ ~GenerationRan) => store = entry[1].store
    /\ (epc = "returned" /\ initial_results # <<>>)
           => /\ qa_results = initial_results
              /\ store = entry[1].store
              /\ auto_collection_triggered = entry[1].auto_collection_triggered
              /\ auto_collection_query = entry[1].auto_collection_query
              /\ inserted = 0

\* C24 witness: a search that found a row returned it although the session
\* flag was set for this very query.
C24_FoundRowsReturnedUntouched ==
    /\ epc = "returned"
    /\ initial_results # <<>>
    /\ qa_results = initial_results
    /\ auto_collection_triggered = <<TRUE>>
    /\ auto_collection_query = <<query>>

\* C25: after a generation that returned True for a query with a word of
\* more than one character, without category filter and with the store
\* reachable, the search that follows returns at least one of the new rows.
C25_FollowUpFindsNewRecord ==
    (/\ epc = "returned"
     /\ success = <<TRUE>>
     /\ storeUp
     /\ category_filter = None
     /\ LongWords(query) # <<>>)
        => \E n \in 1..Len(qa_results) : qa_results[n].id \notin OldIds

\* C26: when the call returns after a generation, whatever its outcome, the
\* session flag is False; and when the query is not the one of the session
\* the flag is False at the buttons.
C26_FlagClearedAfterGeneration ==
    /\ (epc = "returned" /\ GenerationRan) => auto_collection_triggered = <<FALSE>>
    /\ (epc = "buttons" /\ entry[1].auto_collection_query # <<query>>)
           => auto_collection_triggered = <<FALSE>>

\* C26 witness: the flag came in set, the generation succeeded and the search
\* after it found the new rows; the flag is False.
C26_FlagClearedAfterSuccess ==
    /\ epc = "returned"
    /\ entry[1].auto_collection_triggered = <<TRUE>>
    /\ success = <<TRUE>>
    /\ qa_results # <<>>
    /\ auto_collection_triggered = <<FALSE>>

\* C27: the generation returns True exactly when it inserted a product_qa
\* row; when the raw_product_data insert stored nothing it returns False
\* with no product_qa row inserted; and when the raw row was stored every
\* sample was tried, whatever happened to the ones before it.
C27_TrueIffRowInserted ==
    /\ success # <<>> => (success[1] <=> inserted > 0)
    /\ (success # <<>> /\ raw_product_data = <<>>) => (success = <<FALSE>> /\ inserted = 0)
    /\ (success # <<>> /\ raw_product_data # <<>>)
           => sample = 1 + Len(QaSamples(Strip(query), EstimatedCategory(query)))
    /\ inserted = Len(store) - (IF entry = <<>> THEN Len(store) ELSE Len(entry[1].store))

\* C27 witness: the first sample failed, a later one was inserted, and the
\* call returned True.
C27_InsertedAfterFailure ==
    /\ success = <<TRUE>>
    /\ inserted > 0
    /\ \A n \in 1..Len(store) :
           store[n].id \notin OldIds => store[n].confidence_score # 80

(***************************************************************************)
(* The batch.                                                              *)
(***************************************************************************)
\* C22: when process_product_batch has returned, successful + failed,
\* total_products, the number of details and the number of products are
\* equal, and the n-th details entry is the one of the n-th product; while
\* the loop runs each product passed has one entry and one count.
C22_EveryProductCountedOnce ==
    /\ bpc \in {"loop", "collected"}
           => /\ Len(batch_results[1].details) = product_index - 1
              /\ batch_results[1].successful + batch_results[1].failed = product_index - 1
    /\ bpc = "returned"
           => /\ batch_results[1].successful + batch_results[1].failed
                     = batch_results[1].total_products
              /\ batch_results[1].total_products = Len(batch_results[1].details)
              /\ Len(batch_results[1].details) = Len(products)
              /\ \A n \in 1..Len(products) :
                     batch_results[1].details[n].product = products[n][1]
              /\ batch_results[1].successful
                     = Cardinality({n \in 1..Len(products) :
                                       batch_results[1].details[n].status = "success"})

\* C22 witness: a batch of three returned with a success, a failure and an
\* error in it.
C22_MixedBatchReturned ==
    /\ bpc = "returned"
    /\ Len(products) = MaxBatch
    /\ {batch_results[1].details[n].status : n \in 1..Len(products)}
           = {"success", "failed", "error"}

\* C23: QA generation was called only for products whose collection returned
\* a record with total_source_count >= 5, and a product whose collection
\* returned nothing or too little is recorded as failed with no such call.
C23_QaOnlyAfterSufficientCollection ==
    /\ \A n \in 1..Len(qa_invoked) :
           /\ qa_invoked[n] <= Len(collected)
           /\ collected[qa_invoked[n]] # <<>>
           /\ collected[qa_invoked[n]][1].total_source_count >= MinSources
    /\ bpc # "idle"
           => \A n \in 1..Len(batch_results[1].details) :
                  collected[n] = <<>>
                      => /\ batch_results[1].details[n].status = "failed"
                         /\ \A k \in 1..Len(qa_invoked) : qa_invoked[k] # n

\* C23 witness: of two products the first was not collected and recorded as
\* failed, and QA generation was called for the second only.
C23_FailedCollectionSkipsQa ==
    /\ bpc = "returned"
    /\ Len(products) >= 2
    /\ collected[1] = <<>>
    /\ batch_results[1].details[1].status = "failed"
    /\ qa_invoked = <<2>>

(***************************************************************************)
(* save_to_database.                                                       *)
(***************************************************************************)
\* C28: table documents never holds two rows of one url, and a call for a
\* url the table held when it began returns False and leaves documents and
\* the tables of the sources as they were.
C28_UrlsStayDistinct ==
    /\ \A n, k \in 1..Len(documents) : documents[n].url = documents[k].url => n = k
    /\ (spc \in {"returned", "idle"} /\ before # <<>>
        /\ processed_data[1].url \in Urls(before[1].documents))
           => /\ save_ret = <<FALSE>>
              /\ documents = before[1].documents
              /\ specific_rows = before[1].specific_rows

\* C28 witness: a url was saved by one call and refused by a later one.
C28_SecondSaveRefused ==
    /\ spc = "returned"
    /\ save_ret = <<FALSE>>
    /\ processed_data[1].url = "u2"
    /\ "u2" \in Urls(documents)
    /\ documents = before[1].documents

\* C29: when the insert into the source's own table raised after the
\* documents row was stored, save_to_database returns True, the documents
\* row is still stored, no row of the source's table was added, and the
\* caller adds one to saved_count.
C29_DocumentKeptWhenSpecificFails ==
    specific_raised
        => /\ spc \in {"returned", "idle"}
           /\ save_ret = <<TRUE>>
           /\ documents = Append(before[1].documents,
                                 DocumentRow(before[1].documents, processed_data[1]))
           /\ specific_rows = before[1].specific_rows
           /\ spc = "idle" => saved_count = before[1].saved_count + 1
           /\ spc = "returned" => saved_count = before[1].saved_count

\* C29 witness: a call whose source-specific insert raised was counted.
C29_CountedWithoutSpecificRow ==
    /\ spc = "idle"
    /\ specific_raised
    /\ saved_count = before[1].saved_count + 1
    /\ processed_data[1].url \in Urls(documents)
    /\ specific_rows = before[1].specific_rows

(***************************************************************************)
(* parse_ai_recommendation.                                                *)
(***************************************************************************)
\* the category of the heading line that most recently precedes line n of
\* the response, None when there is none
HeadingBefore(lines, n) ==
    LET headings == {k \in 1..(n - 1) :
                        Strip(lines[k]) \in {InstallationHeading, SecurityHeading}}
    IN  IF headings = {} THEN None
        ELSE LET last == CHOOSE k \in headings : \A o \in headings : o <= k
             IN  IF Strip(lines[last]) = InstallationHeading
                 THEN "installation_ease" ELSE "security"

\* C30: every product of a numbered line that parse_ai_recommendation has
\* put into a list is in the list of the heading that most recently precedes
\* its numbered line; no product numbered under the installation heading is
\* in list 'security'.
C30_FiledUnderPrecedingHeading ==
    (ppc = "done" /\ ~fallback)
        => \A n \in 1..Len(filed) :
               filed[n].line > 0
                   => filed[n].category = HeadingBefore(ai_response, filed[n].line)

====
